---- MODULE Spec2Model ----
(***************************************************************************)
(* Verification model of reel_renderer (usy-pawel/reeltoolkit-renderer).   *)
(*                                                                         *)
(* Nine specifications share this module:                                  *)
(*   SpecSched  render_slides_parallel: the semaphore-gated fan-out of     *)
(*              _render_slide_ffmpeg tasks and the gather that follows.    *)
(*   SpecSchedLive  the same with every worker limit render_reel can pass  *)
(*              and a fair event loop, for the liveness of the fan-out.    *)
(*   SpecVideo  render_video_parallel: boundary resolution followed by     *)
(*              the join.                                                   *)
(*   SpecJoin   concat_videos_ffmpeg called with arbitrary arguments.      *)
(*   SpecReel   render_reel: the choice of assembler, the parallel         *)
(*              renderer of SpecVideo inside it, and the later stages.     *)
(*   SpecSub    generate_ass_karaoke: the two loops over the segments.     *)
(*   SpecRes    _get_quality_resolution.                                   *)
(*   SpecCompose  _compose_with_transitions of the single-process path,    *)
(*              on the clips and motions of assemble_video_with_audio.     *)
(*   SpecAuth   the /render/reel endpoint of renderer_service: _check_auth *)
(*              and the request that follows it.                           *)
(* Python lists are functions over 0..n-1 so that indices read as in the   *)
(* source; lists that are only appended to are sequences.  Durations are   *)
(* whole time units, subtitle times whole centiseconds.                    *)
(***************************************************************************)
EXTENDS Integers, Sequences, FiniteSets, TLC

\* ------------------------------------------------------------- bounds
MaxSlides == 3
MaxWorkers == 3
MaxDur == 3         \* longest clip, in time units
MaxReq == 2         \* requested transition durations 0..MaxReq ...
LongRequest == 10   \* ... and one request longer than every clip
MaxHeader == 4      \* longest Authorization header, in words and blanks
MaxAudioDur == 2    \* longest narration handed to render_video_parallel
MaxSegs == 2        \* subtitle segments that share a timeline
MaxWords == 3       \* words of a single chunk ...
MaxWeight == 2      \* ... their word characters ...
MaxCs == 8          \* ... and its span in centiseconds
MaxDim == 12        \* widths and heights 1..MaxDim, besides 1080 and 1920

VARIABLES
    \* ---- render_slides_parallel
    slides,         \* slides[i]: [image_ok, audio_ok] do the sources exist on disk
    max_workers,    \* the max_workers argument
    output_paths,   \* output_paths[i], parallel.py:348
    sem_value,      \* asyncio.Semaphore._value
    sem_waiters,    \* asyncio.Semaphore._waiters, FIFO, of slide indices
    tpc,            \* tpc[i]: where task render_with_limit(slides[i]) stands
    invoked,        \* invoked[i]: encoder invocations made for slide i
    outcome,        \* outcome[i]: how the encoder of slide i ended, kind "none" before
    results,        \* results[i] of asyncio.gather: "pending", "True", "False"
    fs,             \* the work directory: path -> state of the file there
    completion,     \* slide indices in the order their tasks finished
    spc,            \* render_slides_parallel: "gather", "returned", "raised"
    ret,            \* the list it returned
    failed,         \* the index list of the RuntimeError it raised
    \* ---- concat_videos_ffmpeg
    video_paths,    \* video_paths[i], the clips to join
    trans_arg,      \* the transitions argument: [given, items]
    dur_arg,        \* the durations argument: [given, items]
    jconfig,        \* config.quality, or "none" when config is None
    jpc,            \* "idle", "start", "loop", "running", "done"
    concat_list,    \* lines written to concat_list.txt
    filter_parts,   \* the filter graph built so far
    cur_video,      \* current_video_label
    cur_audio,      \* current_audio_label
    current_duration,
    jidx,           \* idx of the loop over range(1, len(video_paths))
    cmd,            \* the command line of the join process
    join_calls,     \* external join invocations made
    join_out,       \* state of the file at output_path
    join_result,    \* "pending", "True", "False"
    \* ---- render_video_parallel
    motions,        \* motions[i], the motion argument of slide i
    audio_durations,\* durations[i] read from the audio files
    transition_specs,   \* transition_specs[i] = _parse_transition_spec(motion)
    work_dir,       \* the mkdtemp directory: "none", "exists", "removed"
    vpc,            \* "idle", "start", "prepared", "rendered", "joining", "returned", "raised"
    video_result,   \* "pending", "True", "False"
    \* ---- render_reel (pipeline.py)
    reel_spec,      \* the RenderJobSpec fields render_reel reads, and the bundle
    reel_motions,   \* slide.motion of every slide, as _collect_motions dumps it
    reel_audio,     \* duration of every slide's audio file in the bundle
    rpc,            \* "idle", "start", "parallel", "single", "assembled",
                    \* "subtitled", "ended", "mixed", "copied", "returned",
                    \* "raised"
    stages,         \* the post-assembly stages that ran, in order
    current_video,  \* which work file current_video names
    reel_output,    \* the file at output_path: "absent" or the work file copied
    reel_error,     \* the exception render_reel raised, "none" before
    reel_work_dir,  \* render_reel's mkdtemp directory: "none", "exists", "removed"
    \* ---- generate_ass_karaoke (subtitles.py), times in centiseconds
    segments,       \* the segments argument, a list of segment dicts
    sub_height,     \* the height argument
    grouped,        \* grouped: (slide index, entries) pairs in insertion order
    timeline_offset,
    sub_done,       \* slide groups the second loop has been through
    dialogue,       \* the Dialogue lines appended to lines
    sub_pc,         \* "idle", "start", "groups", "written"
    \* ---- _get_quality_resolution
    res_width,      \* the width argument
    res_height,     \* the height argument
    res_quality,    \* the quality argument
    res_out,        \* the pair returned
    res_pc,         \* "idle", "start", "returned"
    \* --- render_reel_endpoint (renderer_service/app.py)
    auth_token,     \* settings.auth_token: [given, text]
    auth_header,    \* request.headers.get("Authorization"): [given, text]
    payload_ok,     \* whether the payload validates as a RenderJobSpec
    apc,            \* "idle", "start", "authorized", "rendering", "done"
    render_calls,   \* times render_reel was awaited
    response,       \* [status, detail, body, job_id_header]
    \* --- _compose_with_transitions (video.py)
    clips,          \* clip index -> clip.duration
    compose_motions,\* clip index -> the motion of its slide
    compose_pc,     \* "idle", "start", "returned", "raised"
    compose_out     \* [overlaps: clip index -> crossfade before it, duration]

sched_vars == <<slides, max_workers, output_paths, sem_value, sem_waiters, tpc,
                invoked, outcome, results, fs, completion, spc, ret, failed>>

join_vars == <<video_paths, trans_arg, dur_arg, jconfig, jpc, concat_list,
               filter_parts, cur_video, cur_audio, current_duration, jidx, cmd,
               join_calls, join_out, join_result>>

video_vars == <<motions, audio_durations, transition_specs, work_dir, vpc,
                video_result>>

reel_vars == <<reel_spec, reel_motions, reel_audio, rpc, stages, current_video,
               reel_output, reel_error, reel_work_dir>>

sub_vars == <<segments, sub_height, grouped, timeline_offset, sub_done, dialogue,
              sub_pc>>

res_vars == <<res_width, res_height, res_quality, res_out, res_pc>>

auth_vars == <<auth_token, auth_header, payload_ok, apc, render_calls, response>>

\* the components outside the slide scheduler and the join
compose_vars == <<clips, compose_motions, compose_pc, compose_out>>

ext_vars == <<reel_vars, sub_vars, res_vars, auth_vars, compose_vars>>

vars == <<sched_vars, join_vars, video_vars, ext_vars>>

\* ------------------------------------------------------------ helpers
Min2(a, b) == IF a <= b THEN a ELSE b
Max2(a, b) == IF a >= b THEN a ELSE b

Range(f) == {f[x] : x \in DOMAIN f}

RECURSIVE Digits(_)
\* decimal digits of n >= 0, most significant first
Digits(n) == IF n < 10 THEN <<n>> ELSE Append(Digits(n \div 10), n % 10)

RECURSIVE ZeroPad(_, _)
\* the format specification 03d: pad with zeros on the left up to the width
ZeroPad(ds, width) == IF Len(ds) >= width THEN ds ELSE ZeroPad(<<0>> \o ds, width)

\* os.path.join(work_dir, f"slide_{idx:03d}.mp4")
SlidePath(idx) == [dir |-> "work_dir", stem |-> "slide_",
                   digits |-> ZeroPad(Digits(idx), 3), ext |-> ".mp4"]

NumSlides == Cardinality(DOMAIN slides)
SlideIdx == DOMAIN slides

\* ---------------------------------------------------- _render_slide_ffmpeg
\* What one run of the external encoder can do: raise before an exit status
\* is known, or exit with a code and leave the output path in some state.
FileStates == {"absent", "empty", "data"}
Outcomes == [kind : {"exit"}, rc : {0, 1}, file : FileStates]
            \cup [kind : {"raised"}, rc : {0}, file : {"absent"}]
NoOutcome == [kind |-> "none", rc |-> 0, file |-> "absent"]

SourcesExist(s) == s.image_ok /\ s.audio_ok

\* mutant of OutputGood: the size test is dropped
OutputGoodNoSize(file) == file # "absent"

\* os.path.exists(output_path) and os.path.getsize(output_path) > 0
OutputGood(file) == file # "absent" /\ file = "data"

\* The value returned once the subprocess has been awaited.
RenderSlideResult(o) ==
    IF o.kind = "raised" THEN "False"
    ELSE IF o.rc # 0 THEN "False"
    ELSE IF OutputGood(o.file) THEN "True" ELSE "False"

\* ---------------------------------------------------- asyncio.Semaphore
\* mutant of SemLocked: the semaphore never blocks
SemNeverLocked == FALSE

\* locked(): no free slot, or somebody is queued ahead
SemLocked == sem_value = 0 \/ Len(sem_waiters) > 0

\* _wake_up_next applied to (value, waiters, tpc): hand a slot to the first
\* waiter whose future is not done yet
FirstSleeping(ws, pcs) ==
    IF \E k \in 1..Len(ws) : pcs[ws[k]] = "waiting"
    THEN ws[CHOOSE k \in 1..Len(ws) :
               /\ pcs[ws[k]] = "waiting"
               /\ \A j \in 1..(k - 1) : pcs[ws[j]] # "waiting"]
    ELSE -1

RECURSIVE WakeWhileFree(_, _, _)
\* hand out slots while value > 0 and a sleeping waiter exists
WakeWhileFree(value, ws, pcs) ==
    IF value > 0 /\ FirstSleeping(ws, pcs) # -1
    THEN WakeWhileFree(value - 1, ws,
                       [pcs EXCEPT ![FirstSleeping(ws, pcs)] = "woken"])
    ELSE [value |-> value, pcs |-> pcs]

\* release(): value += 1, then _wake_up_next() once
Release(value, ws, pcs) ==
    IF FirstSleeping(ws, pcs) # -1
    THEN [value |-> value, pcs |-> [pcs EXCEPT ![FirstSleeping(ws, pcs)] = "woken"]]
    ELSE [value |-> value + 1, pcs |-> pcs]

RemoveWaiter(ws, i) == SelectSeq(ws, LAMBDA w : w # i)

\* ------------------------------------------------ render_slides_parallel
\* Body of render_with_limit once the slot is held, up to its first await:
\* a slide with a missing source returns False and releases at once, any
\* other slide launches the encoder.  `value`, `ws`, `pcs` are the semaphore
\* and task states at the moment the slot was obtained.
EnterRender(i, value, ws, pcs) ==
    IF ~SourcesExist(slides[i])
    THEN LET r == Release(value, ws, [pcs EXCEPT ![i] = "done"]) IN
         /\ sem_value' = r.value
         /\ sem_waiters' = ws
         /\ tpc' = r.pcs
         /\ results' = [results EXCEPT ![i] = "False"]
         /\ completion' = Append(completion, i)
         /\ UNCHANGED <<invoked>>
    ELSE /\ sem_value' = value
         /\ sem_waiters' = ws
         /\ tpc' = [pcs EXCEPT ![i] = "encoding"]
         /\ invoked' = [invoked EXCEPT ![i] = @ + 1]
         /\ UNCHANGED <<results, completion>>

\* First step of task i.  The event loop runs new tasks in creation order.
TaskStart(i) ==
    /\ spc = "gather"
    /\ tpc[i] = "created"
    /\ \A j \in SlideIdx : j < i => tpc[j] # "created"
    /\ IF ~SemLocked
       THEN EnterRender(i, sem_value - 1, sem_waiters, tpc)
       ELSE /\ sem_waiters' = Append(sem_waiters, i)
            /\ tpc' = [tpc EXCEPT ![i] = "waiting"]
            /\ UNCHANGED <<sem_value, invoked, results, completion>>
    /\ UNCHANGED <<slides, max_workers, output_paths, outcome, fs, spc, ret, failed>>
    /\ UNCHANGED <<join_vars, video_vars>>
    /\ UNCHANGED ext_vars

\* A waiter that was handed a slot runs again: it leaves the queue, passes
\* on any slot that is still free, and enters the render.
TaskResume(i) ==
    /\ spc = "gather"
    /\ tpc[i] = "woken"
    /\ LET ws == RemoveWaiter(sem_waiters, i)
           w == WakeWhileFree(sem_value, ws, tpc)
       IN EnterRender(i, w.value, ws, w.pcs)
    /\ UNCHANGED <<slides, max_workers, output_paths, outcome, fs, spc, ret, failed>>
    /\ UNCHANGED <<join_vars, video_vars>>
    /\ UNCHANGED ext_vars

\* The encoder of slide i is over with outcome o; the task resumes, computes
\* its result and leaves `async with semaphore`.
EncodeFinish(i, o) ==
    /\ spc = "gather"
    /\ tpc[i] = "encoding"
    /\ LET r == Release(sem_value, sem_waiters, [tpc EXCEPT ![i] = "done"]) IN
       /\ sem_value' = r.value
       /\ tpc' = r.pcs
    /\ outcome' = [outcome EXCEPT ![i] = o]
    /\ fs' = [fs EXCEPT ![output_paths[i]] = [state |-> o.file, writer |-> i]]
    /\ results' = [results EXCEPT ![i] = RenderSlideResult(o)]
    /\ completion' = Append(completion, i)
    /\ UNCHANGED <<slides, max_workers, output_paths, sem_waiters, invoked,
                   spc, ret, failed>>
    /\ UNCHANGED <<join_vars, video_vars>>
    /\ UNCHANGED ext_vars

RECURSIVE FailedFrom(_, _)
\* the loop `for idx, result in enumerate(results)` from position idx on
FailedFrom(res, idx) ==
    IF idx \notin DOMAIN res THEN <<>>
    ELSE IF res[idx] = "Exception" \/ res[idx] = "False"
         THEN <<idx>> \o FailedFrom(res, idx + 1)
         ELSE FailedFrom(res, idx + 1)

\* mutant of FailedList: the scan stops at the first failure
FailedListFirstOnly(res) ==
    IF FailedFrom(res, 0) = <<>> THEN <<>> ELSE <<Head(FailedFrom(res, 0))>>

FailedList(res) == FailedFrom(res, 0)

\* mutant of GatherDone: the gather gives up at the first failed task
GatherDoneOnFirstFailure ==
    \/ \A i \in SlideIdx : tpc[i] = "done"
    \/ \E i \in SlideIdx : results[i] = "False"

\* asyncio.gather(..., return_exceptions=True) is over when every task is
GatherDone == \A i \in SlideIdx : tpc[i] = "done"

\* mutant of ReturnValue: the paths are listed in completion order
ReturnInCompletionOrder == [k \in SlideIdx |-> output_paths[completion[k + 1]]]

\* what render_slides_parallel returns on success
ReturnValue == output_paths

GatherFinish ==
    /\ spc = "gather"
    /\ GatherDone
    /\ LET f == FailedList(results) IN
       IF f # <<>>
       THEN /\ spc' = "raised"
            /\ failed' = f
            /\ UNCHANGED ret
       ELSE /\ spc' = "returned"
            /\ ret' = ReturnValue
            /\ UNCHANGED failed
    /\ UNCHANGED <<slides, max_workers, output_paths, sem_value, sem_waiters,
                   tpc, invoked, outcome, results, fs, completion>>
    /\ UNCHANGED <<join_vars, video_vars>>
    /\ UNCHANGED ext_vars

\* ------------------------------------------------- concat_videos_ffmpeg
NoTransition == [present |-> FALSE, type |-> "", duration |-> 0]
NoLabel == [tag |-> "", idx |-> 0]
NoCmd == [mode |-> "none", inputs |-> <<>>, filter |-> <<>>, maps |-> <<>>,
          vcodec |-> "", preset |-> "", crf |-> "", acodec |-> "",
          audio_bitrate |-> "", audio_sample_rate |-> "", movflags |-> ""]

NumClips == Cardinality(DOMAIN video_paths)

\* transitions = transitions or []
Transitions == IF trans_arg.given THEN trans_arg.items ELSE <<>>
NumTransitions == Cardinality(DOMAIN Transitions)

\* truth value of a list entry: None is false, a transition dict is true
Truthy(t) == t.present

\* mutant of HasTransition: any list at all counts as a transition request
HasTransitionIfListed == trans_arg.given

\* mutant of HasTransition: the request is dropped and the join degrades to
\* the plain path
HasTransitionNever == FALSE

\* has_transition = any(transitions)
HasTransition == \E k \in DOMAIN Transitions : Truthy(Transitions[k])

\* durations is None or len(durations) != len(video_paths)
DurationsUnusable ==
    ~dur_arg.given \/ Cardinality(DOMAIN dur_arg.items) # NumClips

\* _TRANSITION_TYPE_MAP.get(transition_type, "fade")
TransitionTypeMap(type) ==
    CASE type = "fade" -> "fade"
      [] type = "crossfade" -> "fade"
      [] type = "dissolve" -> "dissolve"
      [] OTHER -> "fade"

\* the lines of concat_list.txt, one per clip in list order
ConcatListLines == [k \in 1..NumClips |-> [file |-> video_paths[k - 1]]]

\* the stream-copy command of the plain path
CopyCmd(lines) ==
    [NoCmd EXCEPT !.mode = "concat", !.inputs = lines, !.vcodec = "copy",
                  !.acodec = "copy"]

\* the re-encoding command of the transition path
FilterCmd(parts, vlabel, alabel) ==
    [mode |-> "filter_complex",
     inputs |-> [k \in 1..NumClips |-> [file |-> video_paths[k - 1]]],
     filter |-> parts,
     maps |-> <<vlabel, alabel>>,
     vcodec |-> "libx264",
     preset |-> IF jconfig = "draft" THEN "ultrafast" ELSE "veryfast",
     crf |-> IF jconfig = "draft" THEN "28" ELSE "23",
     acodec |-> "aac",
     audio_bitrate |-> "128k",
     audio_sample_rate |-> "48000",
     movflags |-> "+faststart"]

\* Entry of concat_videos_ffmpeg up to its first await or return.
JoinBegin ==
    /\ jpc = "start"
    /\ IF ~HasTransition
       THEN /\ concat_list' = ConcatListLines
            /\ cmd' = CopyCmd(ConcatListLines)
            /\ join_calls' = join_calls + 1
            /\ jpc' = "running"
            /\ UNCHANGED <<filter_parts, cur_video, cur_audio, current_duration,
                           jidx, join_result>>
       ELSE IF DurationsUnusable
       THEN /\ join_result' = "False"
            /\ jpc' = "done"
            /\ UNCHANGED <<concat_list, cmd, join_calls, filter_parts, cur_video,
                           cur_audio, current_duration, jidx>>
       ELSE /\ filter_parts' = <<>>
            /\ cur_video' = [tag |-> "v", idx |-> 0]
            /\ cur_audio' = [tag |-> "a", idx |-> 0]
            /\ current_duration' = dur_arg.items[0]
            /\ jidx' = 1
            /\ jpc' = "loop"
            /\ UNCHANGED <<concat_list, cmd, join_calls, join_result>>
    /\ UNCHANGED <<video_paths, trans_arg, dur_arg, jconfig, join_out>>
    /\ UNCHANGED <<sched_vars, video_vars>>
    /\ UNCHANGED ext_vars

\* boundary = transitions[idx - 1] if idx - 1 < len(transitions) else None
BoundaryAt(idx) ==
    IF idx - 1 < NumTransitions THEN Transitions[idx - 1] ELSE NoTransition

\* Is the boundary blended: the entry is a dict with a positive duration.
Blends(boundary) == Truthy(boundary) /\ ~(boundary.duration <= 0)

\* mutant of EffectiveDuration: the length joined so far is not looked at
EffectiveDurationNextOnly(requested, cur, next) == Min2(requested, next)

\* duration = min(duration, current_duration, durations[idx])
EffectiveDuration(requested, cur, next) == Min2(requested, Min2(cur, next))

\* mutant of BlendOffset: the blend is placed at the end of the prefix
BlendOffsetAtEnd(cur, d) == cur

\* offset = max(current_duration - duration, 0.0)
BlendOffset(cur, d) == Max2(cur - d, 0)

XfadePart(a, b, out, type, d, offset) ==
    [op |-> "xfade", a |-> a, b |-> b, out |-> out, transition |-> type,
     duration |-> d, offset |-> offset]
AcrossfadePart(a, b, out, d) ==
    [op |-> "acrossfade", a |-> a, b |-> b, out |-> out, transition |-> "",
     duration |-> d, offset |-> 0]
ConcatPart(a, b, out, stream) ==
    [op |-> "concat", a |-> a, b |-> b, out |-> out, transition |-> stream,
     duration |-> 0, offset |-> 0]

\* One pass of `for idx in range(1, len(video_paths))`.
JoinLoopStep ==
    /\ jpc = "loop"
    /\ jidx < NumClips
    /\ LET boundary == BoundaryAt(jidx)
           nextv == [tag |-> "v", idx |-> jidx]
           nexta == [tag |-> "a", idx |-> jidx]
           next == dur_arg.items[jidx]
       IN IF Blends(boundary)
          THEN LET d == EffectiveDuration(boundary.duration, current_duration, next)
                   vout == [tag |-> "vxf", idx |-> jidx]
                   aout == [tag |-> "axf", idx |-> jidx]
               IN /\ filter_parts' = filter_parts \o
                       << XfadePart(cur_video, nextv, vout,
                                    TransitionTypeMap(boundary.type), d,
                                    BlendOffset(current_duration, d)),
                          AcrossfadePart(cur_audio, nexta, aout, d) >>
                  /\ cur_video' = vout
                  /\ cur_audio' = aout
                  /\ current_duration' = current_duration + next - d
          ELSE LET vout == [tag |-> "vcc", idx |-> jidx]
                   aout == [tag |-> "acc", idx |-> jidx]
               IN /\ filter_parts' = filter_parts \o
                       << ConcatPart(cur_video, nextv, vout, "v"),
                          ConcatPart(cur_audio, nexta, aout, "a") >>
                  /\ cur_video' = vout
                  /\ cur_audio' = aout
                  /\ current_duration' = current_duration + next
    /\ jidx' = jidx + 1
    /\ UNCHANGED <<video_paths, trans_arg, dur_arg, jconfig, jpc, concat_list,
                   cmd, join_calls, join_out, join_result>>
    /\ UNCHANGED <<sched_vars, video_vars>>
    /\ UNCHANGED ext_vars

\* After the loop: no filter parts is a failure, else the join process runs.
JoinLoopEnd ==
    /\ jpc = "loop"
    /\ jidx >= NumClips
    /\ IF filter_parts = <<>>
       THEN /\ join_result' = "False"
            /\ jpc' = "done"
            /\ UNCHANGED <<cmd, join_calls>>
       ELSE /\ cmd' = FilterCmd(filter_parts, cur_video, cur_audio)
            /\ join_calls' = join_calls + 1
            /\ jpc' = "running"
            /\ UNCHANGED join_result
    /\ UNCHANGED <<video_paths, trans_arg, dur_arg, jconfig, concat_list,
                   filter_parts, cur_video, cur_audio, current_duration, jidx,
                   join_out>>
    /\ UNCHANGED <<sched_vars, video_vars>>
    /\ UNCHANGED ext_vars

\* The join process is over with outcome o.
JoinProcessExit(o) ==
    /\ jpc = "running"
    /\ join_out' = o.file
    /\ join_result' = RenderSlideResult(o)
    /\ jpc' = "done"
    /\ UNCHANGED <<video_paths, trans_arg, dur_arg, jconfig, concat_list,
                   filter_parts, cur_video, cur_audio, current_duration, jidx,
                   cmd, join_calls>>
    /\ UNCHANGED <<sched_vars, video_vars>>
    /\ UNCHANGED ext_vars

\* the part of the state concat_videos_ffmpeg starts from
JoinLocals ==
    /\ concat_list = <<>>
    /\ filter_parts = <<>>
    /\ cur_video = NoLabel
    /\ cur_audio = NoLabel
    /\ current_duration = 0
    /\ jidx = 0
    /\ cmd = NoCmd
    /\ join_calls = 0
    /\ join_out = "absent"
    /\ join_result = "pending"

JoinIdle ==
    /\ video_paths = <<>>
    /\ trans_arg = [given |-> FALSE, items |-> <<>>]
    /\ dur_arg = [given |-> FALSE, items |-> <<>>]
    /\ jconfig = "none"
    /\ jpc = "idle"
    /\ JoinLocals

SchedIdle ==
    /\ slides = <<>>
    /\ max_workers = 0
    /\ output_paths = <<>>
    /\ sem_value = 0
    /\ sem_waiters = <<>>
    /\ tpc = <<>>
    /\ invoked = <<>>
    /\ outcome = <<>>
    /\ results = <<>>
    /\ fs = <<>>
    /\ completion = <<>>
    /\ spc = "idle"
    /\ ret = <<>>
    /\ failed = <<>>

\* ------------------------------------------------ _parse_transition_spec
\* a motion value: `type` spells transition.get("type") and type_is_text
\* tells whether that value is a str ("" spells a falsy value such as None)
NoMotion == [is_dict |-> FALSE, has_transition |-> FALSE, type |-> "",
             type_is_text |-> TRUE,
             duration |-> [kind |-> "missing", value |-> 0]]

\* (transition.get("type") or "").strip().lower() on the spellings used here
StripLower(text) ==
    CASE text = " Dissolve " -> "dissolve"
      [] text = "FADE" -> "fade"
      [] OTHER -> text

ValidTypes == {"fade", "crossfade", "dissolve"}

\* float(transition.get("duration", 0.0)): a number, or None when it raises
ParsedDuration(d) ==
    CASE d.kind = "number" -> [ok |-> TRUE, value |-> d.value]
      [] d.kind = "missing" -> [ok |-> TRUE, value |-> 0]
      [] OTHER -> [ok |-> FALSE, value |-> 0]

\* (transition.get("type") or "").strip(): a truthy value that is not a str
\* has no strip attribute, and the AttributeError is not caught
ParseRaises(motion) ==
    /\ motion.is_dict
    /\ motion.has_transition
    /\ ~motion.type_is_text
    /\ motion.type # ""

\* the value returned when ParseRaises(motion) is false
ParseTransitionSpec(motion) ==
    IF ~motion.is_dict THEN NoTransition
    ELSE IF ~motion.has_transition THEN NoTransition
    ELSE IF StripLower(motion.type) \notin ValidTypes THEN NoTransition
    ELSE IF ~ParsedDuration(motion.duration).ok THEN NoTransition
    ELSE IF ParsedDuration(motion.duration).value <= 0 THEN NoTransition
    ELSE [present |-> TRUE, type |-> StripLower(motion.type),
          duration |-> ParsedDuration(motion.duration).value]

\* ------------------------------------------------- render_video_parallel
\* work_dir = mkdtemp; durations from the audio files; slides and
\* transition_specs built; render_slides_parallel is about to be awaited.
\* A motion whose parse raises leaves through the finally clause at once.
VideoPrepare ==
    /\ vpc = "start"
    /\ IF \E i \in DOMAIN motions : ParseRaises(motions[i])
       THEN /\ work_dir' = "removed"
            /\ vpc' = "raised"
            /\ UNCHANGED <<slides, transition_specs, output_paths, results, spc>>
       ELSE /\ work_dir' = "exists"
            /\ slides' = [i \in DOMAIN motions |->
                             [image_ok |-> TRUE, audio_ok |-> TRUE]]
            /\ transition_specs' =
                   [i \in DOMAIN motions |-> ParseTransitionSpec(motions[i])]
            /\ output_paths' = [i \in DOMAIN motions |-> SlidePath(i)]
            /\ results' = [i \in DOMAIN motions |-> "pending"]
            /\ spc' = "gather"
            /\ vpc' = "prepared"
    /\ UNCHANGED <<max_workers, sem_value, sem_waiters, tpc, invoked, outcome,
                   fs, completion, ret, failed>>
    /\ UNCHANGED <<motions, audio_durations, video_result>>
    /\ UNCHANGED join_vars
    /\ UNCHANGED ext_vars

\* the results render_slides_parallel may gather: all good, or one bad slide
SlideResultVectors ==
    {[i \in SlideIdx |-> "True"]} \cup
    {[i \in SlideIdx |-> IF i = k THEN "False" ELSE "True"] : k \in SlideIdx}

\* `await render_slides_parallel(...)` as a whole: it returns the paths, or
\* raises, and then the finally clause removes the work directory.
VideoRenderSlides(res) ==
    /\ vpc = "prepared"
    /\ results' = res
    /\ IF FailedList(res) # <<>>
       THEN /\ spc' = "raised"
            /\ failed' = FailedList(res)
            /\ work_dir' = "removed"
            /\ vpc' = "raised"
            /\ UNCHANGED ret
       ELSE /\ spc' = "returned"
            /\ ret' = ReturnValue
            /\ vpc' = "rendered"
            /\ UNCHANGED <<failed, work_dir>>
    /\ UNCHANGED <<slides, max_workers, output_paths, sem_value, sem_waiters,
                   tpc, invoked, outcome, fs, completion>>
    /\ UNCHANGED <<motions, audio_durations, transition_specs, video_result>>
    /\ UNCHANGED join_vars
    /\ UNCHANGED ext_vars

\* mutant of ChosenSpec: the incoming slide's request is preferred
ChosenSpecIncomingFirst(specs, idx) ==
    IF idx + 1 \in DOMAIN specs /\ Truthy(specs[idx + 1]) THEN specs[idx + 1]
    ELSE specs[idx]

\* mutant of ChosenSpec: the incoming slide's request is never taken over
ChosenSpecOwnOnly(specs, idx) == specs[idx]

\* chosen = transition_specs[idx], or transition_specs[idx + 1] when falsy
ChosenSpec(specs, idx) ==
    IF Truthy(specs[idx]) THEN specs[idx]
    ELSE IF idx + 1 \in DOMAIN specs THEN specs[idx + 1] ELSE NoTransition

\* one pass of `for idx in range(len(slides) - 1)`
ResolveBoundary(specs, durs, idx) ==
    LET chosen == ChosenSpec(specs, idx)
        duration == Min2(chosen.duration, Min2(durs[idx], durs[idx + 1]))
    IN IF Truthy(chosen) /\ duration > 0
       THEN [present |-> TRUE, type |-> chosen.type, duration |-> duration]
       ELSE NoTransition

BoundaryTransitions(specs, durs) ==
    [idx \in 0..(Cardinality(DOMAIN specs) - 2) |-> ResolveBoundary(specs, durs, idx)]

\* boundary_transitions computed, concat_videos_ffmpeg entered
VideoCallConcat ==
    /\ vpc = "rendered"
    /\ video_paths' = ret
    /\ trans_arg' = [given |-> TRUE,
                     items |-> BoundaryTransitions(transition_specs, audio_durations)]
    /\ dur_arg' = [given |-> TRUE, items |-> audio_durations]
    /\ jpc' = "start"
    /\ vpc' = "joining"
    /\ UNCHANGED <<jconfig, concat_list, filter_parts, cur_video, cur_audio,
                   current_duration, jidx, cmd, join_calls, join_out, join_result>>
    /\ UNCHANGED <<motions, audio_durations, transition_specs, work_dir,
                   video_result>>
    /\ UNCHANGED sched_vars
    /\ UNCHANGED ext_vars

\* concat_videos_ffmpeg returned: its value is returned, the finally clause
\* removes the work directory
VideoReturn ==
    /\ vpc = "joining"
    /\ jpc = "done"
    /\ video_result' = join_result
    /\ work_dir' = "removed"
    /\ vpc' = "returned"
    /\ UNCHANGED <<motions, audio_durations, transition_specs>>
    /\ UNCHANGED <<sched_vars, join_vars>>
    /\ UNCHANGED ext_vars

VideoIdle ==
    /\ motions = <<>>
    /\ audio_durations = <<>>
    /\ transition_specs = <<>>
    /\ work_dir = "none"
    /\ vpc = "idle"
    /\ video_result = "pending"

\* render_reel not entered
NoReelSpec == [use_parallel |-> FALSE, quality |-> "none", subtitle |-> FALSE,
               ending_video |-> FALSE, background_music |-> "none",
               assets_ok |-> FALSE, transform |-> FALSE]

ReelIdle ==
    /\ reel_spec = NoReelSpec
    /\ reel_motions = <<>>
    /\ reel_audio = <<>>
    /\ rpc = "idle"
    /\ stages = <<>>
    /\ current_video = "none"
    /\ reel_output = "absent"
    /\ reel_error = "none"
    /\ reel_work_dir = "none"

\* generate_ass_karaoke not entered
SubIdle ==
    /\ segments = <<>>
    /\ sub_height = 0
    /\ grouped = <<>>
    /\ timeline_offset = 0
    /\ sub_done = 0
    /\ dialogue = <<>>
    /\ sub_pc = "idle"

\* _get_quality_resolution not called
ResIdle ==
    /\ res_width = 0
    /\ res_height = 0
    /\ res_quality = "none"
    /\ res_out = [width |-> 0, height |-> 0]
    /\ res_pc = "idle"

\* no request received
NoText == [given |-> FALSE, text |-> <<>>]
NoResponse == [status |-> 0, detail |-> "", body |-> "", job_id_header |-> ""]

AuthIdle ==
    /\ auth_token = NoText
    /\ auth_header = NoText
    /\ payload_ok = FALSE
    /\ apc = "idle"
    /\ render_calls = 0
    /\ response = NoResponse

\* _compose_with_transitions not called
NoComposition == [overlaps |-> <<>>, duration |-> 0]

ComposeIdle ==
    /\ clips = <<>>
    /\ compose_motions = <<>>
    /\ compose_pc = "idle"
    /\ compose_out = NoComposition

ExtIdle == ReelIdle /\ SubIdle /\ ResIdle /\ AuthIdle /\ ComposeIdle

Number(v) == [kind |-> "number", value |-> v]
WithTransition(type, d) ==
    [is_dict |-> TRUE, has_transition |-> TRUE, type |-> type,
     type_is_text |-> TRUE, duration |-> d]

\* a transition whose "type" is not a str: None for "", the number 5 for "5"
WithNonTextType(type, d) ==
    [is_dict |-> TRUE, has_transition |-> TRUE, type |-> type,
     type_is_text |-> FALSE, duration |-> d]

\* the motions a caller may pass for a slide
MotionValues ==
    { NoMotion,
      WithTransition("wipe", Number(1)),
      WithTransition("crossfade", Number(0)),
      WithTransition("crossfade", Number(1)),
      WithTransition(" Dissolve ", Number(LongRequest)),
      WithNonTextType("5", Number(1)) }

VideoInit ==
    /\ \E n \in 1..MaxSlides :
        /\ motions \in [0..(n - 1) -> MotionValues]
        /\ audio_durations \in [0..(n - 1) -> 1..MaxAudioDur]
    /\ transition_specs = <<>>
    /\ work_dir = "none"
    /\ vpc = "start"
    /\ video_result = "pending"
    /\ slides = <<>>
    /\ max_workers \in {MaxWorkers}
    /\ output_paths = <<>>
    /\ sem_value = 0
    /\ sem_waiters = <<>>
    /\ tpc = <<>>
    /\ invoked = <<>>
    /\ outcome = <<>>
    /\ results = <<>>
    /\ fs = <<>>
    /\ completion = <<>>
    /\ spc = "idle"
    /\ ret = <<>>
    /\ failed = <<>>
    /\ video_paths = <<>>
    /\ trans_arg = [given |-> FALSE, items |-> <<>>]
    /\ dur_arg = [given |-> FALSE, items |-> <<>>]
    /\ jconfig = "final"
    /\ jpc = "idle"
    /\ JoinLocals
    /\ ExtIdle

VideoNext ==
    \/ VideoPrepare
    \/ \E res \in SlideResultVectors : VideoRenderSlides(res)
    \/ VideoCallConcat
    \/ JoinBegin
    \/ JoinLoopStep
    \/ JoinLoopEnd
    \/ \E o \in Outcomes : JoinProcessExit(o)
    \/ VideoReturn

SpecVideo == VideoInit /\ [][VideoNext]_vars

\* ------------------------------------------------------ specifications
\* the arguments a caller may pass
RequestedDurations == (0..MaxReq) \cup {LongRequest}
TransitionEntries ==
    {NoTransition, [present |-> TRUE, type |-> "dissolve", duration |-> 1]} \cup
    [present : {TRUE}, type : {"crossfade"}, duration : RequestedDurations]
TransitionLens(n) == IF n = 1 THEN {0, 1} ELSE {n - 2, n - 1}
TransitionArgs(n) ==
    {[given |-> FALSE, items |-> <<>>]} \cup
    {[given |-> TRUE, items |-> f] :
        f \in UNION {[0..(k - 1) -> TransitionEntries] : k \in TransitionLens(n)}}
DurationArgs(n) ==
    {[given |-> FALSE, items |-> <<>>]} \cup
    {[given |-> TRUE, items |-> f] :
        f \in [0..(n - 1) -> 1..MaxDur] \cup [0..(n - 2) -> {1}]}

JoinInit ==
    /\ \E n \in 1..MaxSlides :
        /\ video_paths = [i \in 0..(n - 1) |-> SlidePath(i)]
        /\ trans_arg \in TransitionArgs(n)
        /\ dur_arg \in DurationArgs(n)
    /\ jconfig = "none"
    /\ jpc = "start"
    /\ JoinLocals
    /\ SchedIdle
    /\ VideoIdle
    /\ ExtIdle

JoinNext ==
    \/ JoinBegin
    \/ JoinLoopStep
    \/ JoinLoopEnd
    \/ \E o \in Outcomes : JoinProcessExit(o)

SpecJoin == JoinInit /\ [][JoinNext]_vars

SourceStates == [image_ok : BOOLEAN, audio_ok : BOOLEAN]

SchedInitWith(Workers) ==
    /\ \E n \in 1..MaxSlides : slides \in [0..(n - 1) -> SourceStates]
    /\ max_workers \in Workers
    /\ output_paths = [i \in SlideIdx |-> SlidePath(i)]
    /\ sem_value = max_workers
    /\ sem_waiters = <<>>
    /\ tpc = [i \in SlideIdx |-> "created"]
    /\ invoked = [i \in SlideIdx |-> 0]
    /\ outcome = [i \in SlideIdx |-> NoOutcome]
    /\ results = [i \in SlideIdx |-> "pending"]
    /\ fs = [p \in Range(output_paths) |-> [state |-> "absent", writer |-> -1]]
    /\ completion = <<>>
    /\ spc = "gather"
    /\ ret = <<>>
    /\ failed = <<>>

SchedInit == SchedInitWith(1..MaxWorkers) /\ JoinIdle /\ VideoIdle /\ ExtIdle

SchedNext ==
    \/ \E i \in SlideIdx : TaskStart(i)
    \/ \E i \in SlideIdx : TaskResume(i)
    \/ \E i \in SlideIdx, o \in Outcomes : EncodeFinish(i, o)
    \/ GatherFinish

SpecSched == SchedInit /\ [][SchedNext]_vars

\* the limits render_reel can hand down: its max_workers argument, or
\* int(RENDER_MAX_WORKERS), which may be 0
WorkerLimits == 0..MaxWorkers

SchedLiveInit == SchedInitWith(WorkerLimits) /\ JoinIdle /\ VideoIdle /\ ExtIdle

\* the event loop runs every task that is ready, and every encoder exits
SpecSchedLive ==
    /\ SchedLiveInit
    /\ [][SchedNext]_vars
    /\ \A i \in 0..(MaxSlides - 1) :
          /\ WF_vars(i \in SlideIdx /\ TaskStart(i))
          /\ WF_vars(i \in SlideIdx /\ TaskResume(i))
          /\ WF_vars(i \in SlideIdx /\ \E o \in Outcomes : EncodeFinish(i, o))
    /\ WF_vars(GatherFinish)

\* ------------------------------------------------------------ render_reel
\* slide.motion.model_dump(exclude_none=True) of a motion without transition
PlainMotion == [is_dict |-> TRUE, has_transition |-> FALSE, type |-> "",
                type_is_text |-> TRUE,
                duration |-> [kind |-> "missing", value |-> 0]]

\* _collect_motions: the number of slides whose motion carries a transition
CollectTransitions(ms) == Cardinality({i \in DOMAIN ms : ms[i].has_transition})

\* mutant of UseParallel: the transitions are not counted
UseParallelWhenAsked == reel_spec.use_parallel

\* use_parallel = spec.render.use_parallel and transitions == 0
UseParallel == reel_spec.use_parallel /\ CollectTransitions(reel_motions) = 0

\* mutant of ParallelFailed: the value of the parallel renderer is not looked at
ParallelFailedNever == FALSE

\* `if not ok`
ParallelFailed == video_result # "True"

\* mutant of ReelFinally: the work directory is left behind
ReelFinallyKeepingDir == "exists"

\* finally: shutil.rmtree(work_dir)
ReelFinally == "removed"

\* how render_reel ends when an exception leaves the try block: the finally
\* clause removes the work directory
ReelRaise(err) ==
    /\ rpc' = "raised"
    /\ reel_error' = err
    /\ reel_work_dir' = ReelFinally
    /\ UNCHANGED <<reel_spec, reel_motions, reel_audio, stages, current_video,
                   reel_output>>

ReelKeep == UNCHANGED <<reel_spec, reel_motions, reel_audio, reel_output,
                        reel_error, reel_work_dir>>

\* render_reel up to its first await: the work directory is made, the slide
\* assets are looked up, and one of the two assemblers is entered
ReelBegin ==
    /\ rpc = "start"
    /\ IF ~reel_spec.assets_ok
       THEN /\ ReelRaise("FileNotFoundError")
            /\ UNCHANGED <<sched_vars, join_vars, video_vars>>
       ELSE IF UseParallel
       THEN /\ rpc' = "parallel"
            /\ motions' = reel_motions
            /\ audio_durations' = reel_audio
            /\ max_workers' = MaxWorkers
            /\ jconfig' = reel_spec.quality
            /\ vpc' = "start"
            /\ UNCHANGED <<slides, output_paths, sem_value, sem_waiters, tpc,
                           invoked, outcome, results, fs, completion, spc, ret,
                           failed>>
            /\ UNCHANGED <<video_paths, trans_arg, dur_arg, jpc, concat_list,
                           filter_parts, cur_video, cur_audio, current_duration,
                           jidx, cmd, join_calls, join_out, join_result>>
            /\ UNCHANGED <<transition_specs, work_dir, video_result>>
            /\ UNCHANGED <<reel_spec, reel_motions, reel_audio, stages,
                           current_video, reel_output, reel_error, reel_work_dir>>
       ELSE /\ rpc' = "single"
            /\ UNCHANGED <<sched_vars, join_vars, video_vars>>
            /\ UNCHANGED <<reel_spec, reel_motions, reel_audio, stages,
                           current_video, reel_output, reel_error, reel_work_dir>>
    /\ UNCHANGED <<sub_vars, res_vars, auth_vars, compose_vars>>

\* assemble_video_with_audio_parallel has come back: with a value, or with the
\* RuntimeError of render_slides_parallel
ReelParallelDone ==
    /\ rpc = "parallel"
    /\ vpc \in {"returned", "raised"}
    /\ IF vpc = "raised" THEN ReelRaise("RuntimeError")
       ELSE IF ParallelFailed THEN ReelRaise("RenderError")
       ELSE /\ rpc' = "assembled"
            /\ UNCHANGED <<stages, current_video>>
            /\ ReelKeep
    /\ UNCHANGED <<sched_vars, join_vars, video_vars>>
    /\ UNCHANGED <<sub_vars, res_vars, auth_vars, compose_vars>>

\* video.assemble_video_with_audio has come back or raised
ReelSingleDone(ok) ==
    /\ rpc = "single"
    /\ IF ~ok THEN ReelRaise("AssembleError")
       ELSE /\ rpc' = "assembled"
            /\ UNCHANGED <<stages, current_video>>
            /\ ReelKeep
    /\ UNCHANGED <<sched_vars, join_vars, video_vars>>
    /\ UNCHANGED <<sub_vars, res_vars, auth_vars, compose_vars>>

\* how a post-assembly stage can go: its asset is missing from the bundle, the
\* stage raises, or it writes its work file
StageOutcomes == {"ok", "missing", "raised"}

\* one optional stage: wanted or skipped, then run on current_video
ReelStage(wanted, name, file, next, how) ==
    /\ IF ~wanted
       THEN /\ rpc' = next
            /\ UNCHANGED <<stages, current_video>>
            /\ ReelKeep
       ELSE IF how = "missing" THEN ReelRaise("FileNotFoundError")
       ELSE IF how = "raised"
       THEN /\ rpc' = "raised"
            /\ reel_error' = "StageError"
            /\ reel_work_dir' = ReelFinally
            /\ stages' = Append(stages, name)
            /\ UNCHANGED <<reel_spec, reel_motions, reel_audio, current_video,
                           reel_output>>
       ELSE /\ rpc' = next
            /\ stages' = Append(stages, name)
            /\ current_video' = file
            /\ ReelKeep
    /\ UNCHANGED <<sched_vars, join_vars, video_vars>>
    /\ UNCHANGED <<sub_vars, res_vars, auth_vars, compose_vars>>

\* if spec.subtitle: burn_subtitles
ReelSubtitle(how) ==
    /\ rpc = "assembled"
    /\ ReelStage(reel_spec.subtitle, "burn_subtitles", "subbed", "subtitled", how)

\* if spec.ending_video: append_video
ReelEnding(how) ==
    /\ rpc = "subtitled"
    /\ ReelStage(reel_spec.ending_video, "append_video", "combined", "ended", how)

\* if spec.background_music: one of the two mixers
ReelMusic(how) ==
    /\ rpc = "ended"
    /\ ReelStage(reel_spec.background_music # "none",
                 IF reel_spec.background_music = "masked"
                 THEN "mix_background_music_masked" ELSE "mix_background_music",
                 "mixed", "mixed", how)

\* shutil.copy2(current_video, output)
ReelCopy ==
    /\ rpc = "mixed"
    /\ reel_output' = current_video
    /\ rpc' = "copied"
    /\ UNCHANGED <<reel_spec, reel_motions, reel_audio, stages, current_video,
                   reel_error, reel_work_dir>>
    /\ UNCHANGED <<sched_vars, join_vars, video_vars>>
    /\ UNCHANGED <<sub_vars, res_vars, auth_vars, compose_vars>>

\* `return output`, through the finally clause
ReelReturn ==
    /\ rpc = "copied"
    /\ rpc' = "returned"
    /\ reel_work_dir' = ReelFinally
    /\ UNCHANGED <<reel_spec, reel_motions, reel_audio, stages, current_video,
                   reel_output, reel_error>>
    /\ UNCHANGED <<sched_vars, join_vars, video_vars>>
    /\ UNCHANGED <<sub_vars, res_vars, auth_vars, compose_vars>>

\* the job specifications and bundles render_reel is called with; transform
\* tells whether some slide of spec.slides has a TransformSpec
ReelSpecs ==
    [use_parallel : BOOLEAN, quality : {"draft", "final"}, subtitle : BOOLEAN,
     ending_video : BOOLEAN, background_music : {"none", "plain", "masked"},
     assets_ok : BOOLEAN, transform : BOOLEAN]

ReelMotionValues ==
    {NoMotion, PlainMotion, WithTransition("crossfade", Number(1))}

ReelInit ==
    /\ reel_spec \in ReelSpecs
    /\ \E n \in 1..MaxSlides, d \in 1..MaxAudioDur :
        /\ reel_motions \in [0..(n - 1) -> ReelMotionValues]
        /\ reel_audio = [i \in 0..(n - 1) |-> d]
    /\ rpc = "start"
    /\ stages = <<>>
    /\ current_video = "base"
    /\ reel_output = "absent"
    /\ reel_error = "none"
    /\ reel_work_dir = "exists"
    /\ SchedIdle
    /\ JoinIdle
    /\ VideoIdle
    /\ SubIdle
    /\ ResIdle
    /\ AuthIdle
    /\ ComposeIdle

ReelNext ==
    \/ ReelBegin
    \/ VideoPrepare
    \/ \E res \in SlideResultVectors : VideoRenderSlides(res)
    \/ VideoCallConcat
    \/ JoinBegin
    \/ \E o \in Outcomes : JoinProcessExit(o)
    \/ VideoReturn
    \/ ReelParallelDone
    \/ \E ok \in BOOLEAN : ReelSingleDone(ok)
    \/ \E how \in StageOutcomes : ReelSubtitle(how)
    \/ \E how \in StageOutcomes : ReelEnding(how)
    \/ \E how \in StageOutcomes : ReelMusic(how)
    \/ ReelCopy
    \/ ReelReturn

SpecReel == ReelInit /\ [][ReelNext]_vars

\* ------------------------------------------------- generate_ass_karaoke
\* Times are whole centiseconds, so that round(x * 100) of the source is
\* exact; a text is its lines, a line its tokens, a token its length and the
\* number of its word characters.  Lists are sequences here: segment k of
\* the sequence has idx = k - 1.

\* a dict value as seg.get returns it: None, a number, or something float()
\* and int() reject
Missing == [kind |-> "missing", value |-> 0]
Junk == [kind |-> "junk", value |-> 0]

Word(n) == [len |-> n, wlen |-> n]
Punct(n) == [len |-> n, wlen |-> 0]

RECURSIVE SeqSum(_)
SeqSum(q) == IF q = <<>> THEN 0 ELSE q[1] + SeqSum(Tail(q))

RECURSIVE Flatten(_)
\* [token for group in line_groups for token in group]
Flatten(groups) ==
    IF groups = <<>> THEN <<>> ELSE groups[1] \o Flatten(Tail(groups))

NonEmptyLines(ls) == SelectSeq(ls, LAMBDA l : l # <<>>)

\* len(trimmed_text): the tokens, a separator between neighbours
TextChars(text) ==
    LET tokens == Flatten(text)
    IN IF tokens = <<>> THEN 0
       ELSE SeqSum([i \in 1..Len(tokens) |-> tokens[i].len]) + Len(tokens) - 1

\* round() of Python on num / den, den > 0: halves go to the even neighbour
RoundHalfEven(num, den) ==
    LET q == num \div den
        r == num % den
    IN IF 2 * r < den THEN q
       ELSE IF 2 * r > den THEN q + 1
       ELSE IF q % 2 = 0 THEN q ELSE q + 1

\* _ass_time
AssTime(cs) ==
    [hours |-> cs \div 360000,
     minutes |-> (cs % 360000) \div 6000,
     secs |-> (cs % 6000) \div 100,
     centis |-> cs % 100]

\* int(value) with idx as the fallback of the except clause
IntOr(field, idx) == IF field.kind = "number" THEN field.value ELSE idx

\* float(value) if value is not None else None, None on TypeError/ValueError
FloatOrNone(field) ==
    [given |-> field.kind = "number", value |-> field.value]

\* normalized_lines
NormalizedLines(seg) ==
    LET listed == IF seg.lines.given THEN NonEmptyLines(seg.lines.value) ELSE <<>>
    IN IF listed # <<>> THEN listed
       ELSE IF TextChars(seg.text) > 0 THEN NonEmptyLines(seg.text)
       ELSE <<>>

\* max(1.0, len(trimmed_text) * 0.06), the estimate of a chunk with no timing
CharacterEstimate(chars) == Max2(100, 6 * chars)

\* max(0.5, len(trimmed_text) * 0.06 or 1.0), what replaces a duration <= 0
ReplacementEstimate(chars) ==
    Max2(50, IF 6 * chars = 0 THEN 100 ELSE 6 * chars)

\* duration, start and end of one segment, lines 87-120
ResolveTiming(seg, chars) ==
    LET given == FloatOrNone(seg.duration)
        start_rel == IF seg.start.kind = "number" THEN seg.start.value ELSE 0
        end_given == FloatOrNone(seg.end)
        derived ==
            IF ~given.given /\ end_given.given
            THEN [given |-> TRUE, value |-> Max2(0, end_given.value - start_rel)]
            ELSE given
        duration ==
            IF derived.given THEN derived.value
            ELSE IF seg.audio.given THEN seg.audio.duration
            ELSE CharacterEstimate(chars)
        end_rel == IF end_given.given THEN end_given.value ELSE start_rel + duration
    IN [duration |-> IF duration <= 0 THEN ReplacementEstimate(chars) ELSE duration,
        start |-> start_rel,
        end |-> end_rel]

\* the dict appended to grouped[slide_idx]
NormalizeSegment(seg, idx) ==
    LET timing == ResolveTiming(seg, TextChars(seg.text))
    IN [chunk_index |-> IntOr(seg.chunk_index, idx),
        text |-> seg.text,
        lines |-> NormalizedLines(seg),
        subtitle |-> seg.subtitle,
        duration |-> timing.duration,
        start |-> timing.start,
        end |-> timing.end,
        subtitle_vertical_position |-> seg.subtitle_vertical_position]

\* grouped.setdefault(slide_idx, []).append(entry)
AddEntry(g, slide, entry) ==
    IF \E k \in 1..Len(g) : g[k].slide = slide
    THEN [k \in 1..Len(g) |->
            IF g[k].slide = slide
            THEN [g[k] EXCEPT !.segments = Append(@, entry)] ELSE g[k]]
    ELSE Append(g, [slide |-> slide, segments |-> <<entry>>])

RECURSIVE BuildGrouped(_, _)
\* grouped after the first n segments of the first loop
BuildGrouped(segs, n) ==
    IF n = 0 THEN <<>>
    ELSE LET g == BuildGrouped(segs, n - 1)
             seg == segs[n]
         IN IF ~seg.is_dict THEN g
            ELSE AddEntry(g, IntOr(seg.slide_index, n - 1),
                          NormalizeSegment(seg, n - 1))

RECURSIVE SortedSeq(_)
\* sorted(grouped.keys())
SortedSeq(S) ==
    IF S = {} THEN <<>>
    ELSE LET m == CHOOSE x \in S : \A y \in S : x <= y
         IN <<m>> \o SortedSeq(S \ {m})

SortedKeys(g) == SortedSeq({g[k].slide : k \in 1..Len(g)})

\* grouped[slide_idx]
GroupOf(g, slide) == (CHOOSE pair \in Range(g) : pair.slide = slide).segments

\* x placed behind every element whose chunk_index is not larger
InsertByChunk(sorted, x) ==
    LET before == SelectSeq(sorted, LAMBDA e : e.chunk_index <= x.chunk_index)
        after == SelectSeq(sorted, LAMBDA e : e.chunk_index > x.chunk_index)
    IN before \o <<x>> \o after

RECURSIVE SortByChunk(_)
\* slide_segments.sort(key=chunk_index), a stable sort
SortByChunk(es) ==
    IF Len(es) <= 1 THEN es
    ELSE InsertByChunk(SortByChunk(SubSeq(es, 1, Len(es) - 1)), es[Len(es)])

\* mutant of LengthAfter: a chunk that emits no line does not count
LengthAfterIfEmitted(slide_length, entry) ==
    IF entry.subtitle /\ TextChars(entry.text) > 0
    THEN Max2(slide_length, entry.end) ELSE slide_length

\* slide_length = max(slide_length, entry["end"])
LengthAfter(slide_length, entry) == Max2(slide_length, entry.end)

\* chunk_start = timeline_offset + max(0.0, entry["start"])
ChunkStart(offset, entry) == offset + Max2(0, entry.start)

\* chunk_end = timeline_offset + max(chunk_start, entry["end"])
ChunkEnd(offset, entry) == offset + Max2(ChunkStart(offset, entry), entry.end)

\* line_groups, with the fallback of the whole text as one token
LineGroups(entry) ==
    IF NonEmptyLines(entry.lines) # <<>> THEN NonEmptyLines(entry.lines)
    ELSE LET tokens == Flatten(entry.text)
         IN << <<[len |-> TextChars(entry.text),
                  wlen |-> SeqSum([i \in 1..Len(tokens) |-> tokens[i].wlen])]>> >>

\* lengths = [max(1, len(re.sub(r"\W", "", token))) for token in words]
Lengths(words) == [i \in 1..Len(words) |-> Max2(1, words[i].wlen)]

\* mutant of Alloc: the rounding remainder is dropped
AllocWithoutCarry(lengths, total_cs, total_len) ==
    [i \in 1..Len(lengths) |->
        Max2(1, RoundHalfEven(total_cs * lengths[i], total_len))]

\* alloc, with diff added to its last element
Alloc(lengths, total_cs, total_len) ==
    LET raw == [i \in 1..Len(lengths) |->
                    Max2(1, RoundHalfEven(total_cs * lengths[i], total_len))]
        diff == total_cs - SeqSum(raw)
    IN [i \in 1..Len(raw) |-> IF i = Len(raw) THEN raw[i] + diff ELSE raw[i]]

\* margin_v
MarginV(position, height) ==
    IF position.kind = "number"
    THEN LET clamped == Max2(0, Min2(100, position.value))
         IN Max2(0, Min2(RoundHalfEven(100 * height - clamped * height, 100), height))
    ELSE 120

\* the karaoke parts of one chunk: per line, per token, its \k value
KaraokeParts(line_groups, alloc) ==
    [li \in 1..Len(line_groups) |->
        [ti \in 1..Len(line_groups[li]) |->
            LET alloc_idx == Len(Flatten(SubSeq(line_groups, 1, li - 1))) + ti
            IN [k |-> alloc[Min2(alloc_idx, Len(alloc))],
                token |-> line_groups[li][ti]]]]

\* the Dialogue line of the entry at position pos of its sorted group
DialogueLine(entry, offset, slide, pos, height) ==
    LET chunk_start == ChunkStart(offset, entry)
        chunk_end == ChunkEnd(offset, entry)
        chunk_duration == Max2(1, chunk_end - chunk_start)
        line_groups == LineGroups(entry)
        lengths == Lengths(Flatten(line_groups))
        summed == SeqSum(lengths)
        total_len == IF summed # 0 THEN summed
                     ELSE IF Len(lengths) # 0 THEN Len(lengths) ELSE 1
        total_cs == Max2(1, chunk_duration)
    IN [slide |-> slide,
        pos |-> pos,
        start |-> chunk_start,
        end |-> chunk_end,
        start_time |-> AssTime(chunk_start),
        end_time |-> AssTime(chunk_end),
        margin_v |-> MarginV(entry.subtitle_vertical_position, height),
        kara |-> KaraokeParts(line_groups, Alloc(lengths, total_cs, total_len))]

RECURSIVE SlideLoop(_, _, _, _, _, _, _)
\* `for entry in slide_segments` from position pos on
SlideLoop(es, pos, offset, slide, height, slide_length, out) ==
    IF pos > Len(es) THEN [slide_length |-> slide_length, lines |-> out]
    ELSE LET entry == es[pos]
             longer == LengthAfter(slide_length, entry)
         IN IF ~entry.subtitle \/ TextChars(entry.text) = 0
            THEN SlideLoop(es, pos + 1, offset, slide, height, longer, out)
            ELSE SlideLoop(es, pos + 1, offset, slide, height, longer,
                           Append(out, DialogueLine(entry, offset, slide, pos, height)))

\* mutant of SlideLength: no fallback to the durations
SlideLengthWithoutFallback(slide_length, es) == slide_length

\* if slide_length <= 0: slide_length = sum(entry["duration"] ...)
SlideLength(slide_length, es) ==
    IF slide_length <= 0
    THEN SeqSum([i \in 1..Len(es) |-> es[i].duration])
    ELSE slide_length

\* the first loop, lines 48-135
SubNormalize ==
    /\ sub_pc = "start"
    /\ grouped' = BuildGrouped(segments, Len(segments))
    /\ timeline_offset' = 0
    /\ sub_pc' = "groups"
    /\ UNCHANGED <<segments, sub_height, sub_done, dialogue>>
    /\ UNCHANGED <<sched_vars, join_vars, video_vars, reel_vars, res_vars,
                   auth_vars, compose_vars>>

\* one pass of `for slide_idx in sorted(grouped.keys())`
SubGroup ==
    /\ sub_pc = "groups"
    /\ sub_done < Len(SortedKeys(grouped))
    /\ LET slide_idx == SortedKeys(grouped)[sub_done + 1]
           slide_segments == SortByChunk(GroupOf(grouped, slide_idx))
           looped == SlideLoop(slide_segments, 1, timeline_offset, slide_idx,
                               sub_height, 0, <<>>)
       IN /\ grouped' = [k \in 1..Len(grouped) |->
                            IF grouped[k].slide = slide_idx
                            THEN [grouped[k] EXCEPT !.segments = slide_segments]
                            ELSE grouped[k]]
          /\ dialogue' = dialogue \o looped.lines
          /\ timeline_offset' =
                timeline_offset
                + Max2(0, SlideLength(looped.slide_length, slide_segments))
    /\ sub_done' = sub_done + 1
    /\ UNCHANGED <<segments, sub_height, sub_pc>>
    /\ UNCHANGED <<sched_vars, join_vars, video_vars, reel_vars, res_vars,
                   auth_vars, compose_vars>>

\* the file is written
SubWrite ==
    /\ sub_pc = "groups"
    /\ sub_done = Len(SortedKeys(grouped))
    /\ sub_pc' = "written"
    /\ UNCHANGED <<segments, sub_height, grouped, timeline_offset, sub_done,
                   dialogue>>
    /\ UNCHANGED <<sched_vars, join_vars, video_vars, reel_vars, res_vars,
                   auth_vars, compose_vars>>

\* ---- the segments generate_ass_karaoke is called with
Segment(slide, chunk, text, enabled, timing) ==
    [is_dict |-> TRUE, slide_index |-> slide, chunk_index |-> chunk,
     text |-> text, lines |-> [given |-> FALSE, value |-> <<>>],
     subtitle |-> enabled, duration |-> timing.duration,
     start |-> timing.start, end |-> timing.end,
     audio |-> [given |-> FALSE, duration |-> 0],
     subtitle_vertical_position |-> Missing]

Timing(d, s, e) == [duration |-> d, start |-> s, end |-> e]

TimingValues ==
    { Timing(Missing, Missing, Number(2)),
      Timing(Missing, Number(1), Number(3)),
      Timing(Number(0), Missing, Missing),
      Timing(Number(3), Missing, Number(1)),
      Timing(Missing, Missing, Missing),
      Timing(Number(1), Number(2), Missing) }

\* "a bb" and "cat dog"
TextABb == << <<Word(1), Word(2)>> >>
TextCatDog == << <<Word(3), Word(3)>> >>

\* (slide_index, chunk_index) of the chunks that share a timeline
Places == {<<0, 0>>, <<0, 1>>, <<1, 0>>}

\* the timings given to chunks whose subtitle flag is off
SilentTimingValues ==
    { Timing(Missing, Number(1), Number(3)),
      Timing(Number(0), Missing, Missing),
      Timing(Number(3), Missing, Number(1)) }

PlacedSegments ==
    {Segment(Number(p[1]), Number(p[2]), TextABb, TRUE, t) :
        p \in Places, t \in TimingValues}
    \cup {Segment(Number(p[1]), Number(p[2]), TextABb, FALSE, t) :
        p \in Places, t \in SilentTimingValues}

\* segments that exercise the remaining branches of the first loop
SpecialSegments ==
    { Segment(Number(0), Number(0), <<>>, TRUE,
              Timing(Missing, Missing, Number(2))),
      [Segment(Missing, Missing, <<>>, FALSE, Timing(Missing, Missing, Missing))
          EXCEPT !.is_dict = FALSE],
      Segment(Junk, Missing, TextCatDog, TRUE, Timing(Junk, Junk, Number(2))),
      [Segment(Number(1), Number(1), TextABb, TRUE,
               Timing(Missing, Number(1), Number(3)))
          EXCEPT !.lines = [given |-> TRUE,
                            value |-> << <<Word(3)>>, <<>>, <<Punct(2), Word(3)>> >>],
                 !.subtitle_vertical_position = Number(25)],
      [Segment(Number(1), Missing, TextCatDog, TRUE,
               Timing(Missing, Missing, Missing))
          EXCEPT !.audio = [given |-> TRUE, duration |-> 4]],
      Segment(Number(0), Number(1), TextCatDog, TRUE,
              Timing(Missing, Number(-1), Number(2))) }

SegmentValues == PlacedSegments \cup SpecialSegments

\* one enabled chunk: every text of up to MaxWords tokens over every span
Tokens == {Word(w) : w \in 1..MaxWeight} \cup {Punct(1)}
SingleChunks ==
    {<<Segment(Missing, Missing, <<line>>, TRUE,
               Timing(Missing, Missing, Number(e)))>> :
        line \in UNION {[1..n -> Tokens] : n \in 1..MaxWords}, e \in 1..MaxCs}

SubInputs ==
    SingleChunks \cup UNION {[1..n -> SegmentValues] : n \in 1..MaxSegs}

SubInit ==
    /\ segments \in SubInputs
    /\ sub_height \in {1920}
    /\ grouped = <<>>
    /\ timeline_offset = 0
    /\ sub_done = 0
    /\ dialogue = <<>>
    /\ sub_pc = "start"
    /\ SchedIdle
    /\ JoinIdle
    /\ VideoIdle
    /\ ReelIdle
    /\ ResIdle
    /\ AuthIdle
    /\ ComposeIdle

SubNext ==
    \/ SubNormalize
    \/ SubGroup
    \/ SubWrite

SpecSub == SubInit /\ [][SubNext]_vars

\* ------------------------------------------------ _get_quality_resolution
\* int(540 * aspect) and int(540 / aspect), aspect = width / height in floating
\* point, long over short the exact quotient: the truncation is the floor of
\* the quotient, or one below it when the quotient is whole and the rounded
\* product falls short of it; it is never below 540, because aspect > 1
\* (<= 1) survives the rounding of the division.
TruncatedScale(long, short) ==
    LET exact == (540 * long) \div short
    IN {exact} \cup
       (IF (540 * long) % short = 0 /\ exact - 1 >= 540 THEN {exact - 1} ELSE {})

\* mutant of RoundUpEven: an odd dimension is kept
KeepParity(x) == x

\* draft_width += draft_width % 2
RoundUpEven(x) == x + (x % 2)

\* the pairs _get_quality_resolution may return
QualityResolution(width, height, quality) ==
    IF quality = "final" THEN {[width |-> width, height |-> height]}
    ELSE IF width > height
    THEN {[width |-> RoundUpEven(w), height |-> RoundUpEven(540)] :
            w \in TruncatedScale(width, height)}
    ELSE {[width |-> RoundUpEven(540), height |-> RoundUpEven(h)] :
            h \in TruncatedScale(height, width)}

ResApply ==
    /\ res_pc = "start"
    /\ res_out' \in QualityResolution(res_width, res_height, res_quality)
    /\ res_pc' = "returned"
    /\ UNCHANGED <<res_width, res_height, res_quality>>
    /\ UNCHANGED <<sched_vars, join_vars, video_vars, reel_vars, sub_vars,
                   auth_vars, compose_vars>>

\* the dimensions a caller may ask for
Dims == (1..MaxDim) \cup {1080, 1920}

ResInit ==
    /\ res_width \in Dims
    /\ res_height \in Dims
    /\ res_quality \in {"draft", "final"}
    /\ res_out = [width |-> 0, height |-> 0]
    /\ res_pc = "start"
    /\ SchedIdle
    /\ JoinIdle
    /\ VideoIdle
    /\ ReelIdle
    /\ SubIdle
    /\ AuthIdle
    /\ ComposeIdle

ResNext == ResApply

SpecRes == ResInit /\ [][ResNext]_vars

\* --------------------------------------------- _compose_with_transitions
\* has_transitions = any(t for t in transitions[:-1])
ComposeHasTransitions(specs) ==
    \E i \in DOMAIN specs : i + 1 \in DOMAIN specs /\ Truthy(specs[i])

\* the first truthy of (prev_spec, next_spec) for the clip at idx
ComposeCandidate(specs, idx) ==
    IF Truthy(specs[idx - 1]) THEN specs[idx - 1] ELSE specs[idx]

\* overlap = min(spec["duration"], clips[idx - 1].duration, clip.duration),
\* 0.0 without a spec; an overlap is used when it exceeds 1e-3
ComposeOverlap(specs, durs, idx) ==
    LET spec == ComposeCandidate(specs, idx)
    IN IF Truthy(spec)
       THEN Min2(spec.duration, Min2(durs[idx - 1], durs[idx]))
       ELSE 0

RECURSIVE ComposeTimeline(_, _, _, _, _)
\* `for idx, clip in enumerate(clips)` from idx on, idx >= 1
ComposeTimeline(specs, durs, idx, current_end, overlaps) ==
    IF idx \notin DOMAIN durs
    THEN [overlaps |-> overlaps, duration |-> current_end]
    ELSE LET overlap == ComposeOverlap(specs, durs, idx)
         IN IF overlap > 0
            THEN LET start_time == Max2(0, current_end - overlap)
                 IN ComposeTimeline(specs, durs, idx + 1,
                        Max2(current_end, start_time + durs[idx]),
                        Append(overlaps, overlap))
            ELSE ComposeTimeline(specs, durs, idx + 1, current_end + durs[idx],
                                 Append(overlaps, 0))

\* sum of the clip durations from idx on: concatenate_videoclips
RECURSIVE ConcatenatedLength(_, _)
ConcatenatedLength(durs, idx) ==
    IF idx \notin DOMAIN durs THEN 0
    ELSE durs[idx] + ConcatenatedLength(durs, idx + 1)

\* the crossfade before each clip after the first, and the final duration
ComposeWithTransitions(specs, durs) ==
    IF Cardinality(DOMAIN durs) = 1 \/ ~ComposeHasTransitions(specs)
    THEN [overlaps |-> [i \in 1..(Cardinality(DOMAIN durs) - 1) |-> 0],
          duration |-> ConcatenatedLength(durs, 0)]
    ELSE ComposeTimeline(specs, durs, 1, durs[0], <<>>)

\* assemble_video_with_audio parses every motion, then composes the clips
ComposeApply ==
    /\ compose_pc = "start"
    /\ IF \E i \in DOMAIN compose_motions : ParseRaises(compose_motions[i])
       THEN /\ compose_pc' = "raised"
            /\ UNCHANGED compose_out
       ELSE /\ compose_pc' = "returned"
            /\ compose_out' = ComposeWithTransitions(
                   [i \in DOMAIN compose_motions |->
                        ParseTransitionSpec(compose_motions[i])], clips)
    /\ UNCHANGED <<clips, compose_motions>>
    /\ UNCHANGED <<sched_vars, join_vars, video_vars, reel_vars, sub_vars,
                   res_vars, auth_vars>>

ComposeInit ==
    /\ \E n \in 1..MaxSlides :
        /\ compose_motions \in [0..(n - 1) -> MotionValues]
        /\ clips \in [0..(n - 1) -> 1..MaxAudioDur]
    /\ compose_pc = "start"
    /\ compose_out = NoComposition
    /\ SchedIdle
    /\ JoinIdle
    /\ VideoIdle
    /\ ReelIdle
    /\ SubIdle
    /\ ResIdle
    /\ AuthIdle

ComposeNext == ComposeApply

SpecCompose == ComposeInit /\ [][ComposeNext]_vars

\* ------------------------------------------------- render_reel_endpoint
\* Strings are sequences of words and single blanks: "Bearer secret" is
\* <<"Bearer", " ", "secret">>.  No word contains a blank.
Text(words) == [given |-> TRUE, text |-> words]

\* auth_header.startswith("Bearer ")
StartsWithBearer(h) == Len(h) >= 2 /\ h[1] = "Bearer" /\ h[2] = " "

\* s.split(" ", 1)[1], for s that holds a blank
RECURSIVE AfterFirstBlank(_)
AfterFirstBlank(s) ==
    IF Head(s) = " " THEN Tail(s) ELSE AfterFirstBlank(Tail(s))

\* s.strip()
RECURSIVE Strip(_)
Strip(s) ==
    IF s = <<>> THEN s
    ELSE IF Head(s) = " " THEN Strip(Tail(s))
    ELSE IF s[Len(s)] = " " THEN Strip(SubSeq(s, 1, Len(s) - 1))
    ELSE s

\* mutant of Provided: the token is compared without strip()
ProvidedUnstripped(h) == AfterFirstBlank(h)

\* provided = auth_header.split(" ", 1)[1].strip()
Provided(h) == Strip(AfterFirstBlank(h))

\* _check_auth: the status of the HTTPException it raises, 0 when it returns
CheckAuth(token, header) ==
    IF ~token.given \/ token.text = <<>> THEN 0
    ELSE IF ~header.given \/ header.text = <<>>
            \/ ~StartsWithBearer(header.text) THEN 401
    ELSE IF Provided(header.text) # token.text THEN 403
    ELSE 0

\* the endpoint is entered and calls _check_auth first
EndpointCheckAuth ==
    /\ apc = "start"
    /\ LET code == CheckAuth(auth_token, auth_header)
       IN IF code = 0
          THEN apc' = "authorized" /\ UNCHANGED response
          ELSE /\ apc' = "done"
               /\ response' = [NoResponse EXCEPT
                      !.status = code,
                      !.detail = IF code = 401 THEN "Missing bearer token"
                                 ELSE "Invalid bearer token"]
    /\ UNCHANGED <<auth_token, auth_header, payload_ok, render_calls>>
    /\ UNCHANGED <<sched_vars, join_vars, video_vars, reel_vars, sub_vars,
                   res_vars, compose_vars>>

\* RenderJobSpec.model_validate_json(payload); the bundle is stored and
\* render_reel is awaited
EndpointValidate ==
    /\ apc = "authorized"
    /\ IF payload_ok
       THEN /\ apc' = "rendering"
            /\ render_calls' = render_calls + 1
            /\ UNCHANGED response
       ELSE /\ apc' = "done"
            /\ response' = [NoResponse EXCEPT !.status = 400,
                                              !.detail = "Invalid payload"]
            /\ UNCHANGED render_calls
    /\ UNCHANGED <<auth_token, auth_header, payload_ok>>
    /\ UNCHANGED <<sched_vars, join_vars, video_vars, reel_vars, sub_vars,
                   res_vars, compose_vars>>

\* render_reel returned the final path, or raised
EndpointRenderDone(ok) ==
    /\ apc = "rendering"
    /\ apc' = "done"
    /\ response' = IF ok
                   THEN [NoResponse EXCEPT !.status = 200,
                                           !.body = "rendered",
                                           !.job_id_header = "job_id"]
                   ELSE [NoResponse EXCEPT !.status = 500,
                                           !.detail = "Render failed"]
    /\ UNCHANGED <<auth_token, auth_header, payload_ok, render_calls>>
    /\ UNCHANGED <<sched_vars, join_vars, video_vars, reel_vars, sub_vars,
                   res_vars, compose_vars>>

\* the words and blanks headers and tokens are made of
HeaderWords == {"Bearer", " ", "secret", "wrong"}

SeqsUpTo(S, n) == UNION {[1..k -> S] : k \in 0..n}

\* Authorization headers: absent, or any text of at most MaxHeader words,
\* or another scheme
Headers ==
    {NoText} \cup {Text(h) : h \in SeqsUpTo(HeaderWords, MaxHeader)}
             \cup {Text(<<"Basic", " ", "secret">>),
                   Text(<<"bearer", " ", "secret">>)}

\* RENDER_AUTH_TOKEN: unset, empty, or a token
AuthTokens == {NoText, Text(<<>>), Text(<<"secret">>)}

AuthInit ==
    /\ auth_token \in AuthTokens
    /\ auth_header \in Headers
    /\ payload_ok \in BOOLEAN
    /\ apc = "start"
    /\ render_calls = 0
    /\ response = NoResponse
    /\ SchedIdle
    /\ JoinIdle
    /\ VideoIdle
    /\ ReelIdle
    /\ SubIdle
    /\ ResIdle
    /\ ComposeIdle

AuthNext ==
    \/ EndpointCheckAuth
    \/ EndpointValidate
    \/ \E ok \in BOOLEAN : EndpointRenderDone(ok)

SpecAuth == AuthInit /\ [][AuthNext]_vars

\* ===================================================================
\* Claims about render_slides_parallel and _render_slide_ffmpeg (SpecSched)
\* ===================================================================
SlotHolders == {i \in SlideIdx : tpc[i] \in {"woken", "encoding"}}

\* C1: with max_workers = W >= 1, the number of slides inside their render
\* step (slot held, encoder in flight) is at most W in every reachable state.
C1_BoundedConcurrency == Cardinality(SlotHolders) <= max_workers

\* C1 witness: every slot is taken, an encoder is running and a slide waits.
C1_Witness ==
    /\ Cardinality(SlotHolders) = max_workers
    /\ \E i \in SlideIdx : tpc[i] = "encoding"
    /\ \E i \in SlideIdx : tpc[i] = "waiting"

\* the slide index a three-digit zero-padded name stands for
DecodedIndex(p) == 100 * p.digits[1] + 10 * p.digits[2] + p.digits[3]

\* C2: when every slide succeeds, exactly N paths are returned and the path
\* at position i is the file named by zero-padded i in the work directory,
\* written by slide i, whatever the order in which the encoders completed.
C2_PathsInInputOrder ==
    spc = "returned" =>
        /\ DOMAIN ret = 0..(NumSlides - 1)
        /\ \A i \in SlideIdx :
            /\ ret[i].dir = "work_dir"
            /\ ret[i].stem = "slide_" /\ ret[i].ext = ".mp4"
            /\ Len(ret[i].digits) = 3
            /\ DecodedIndex(ret[i]) = i
            /\ fs[ret[i]] = [state |-> "data", writer |-> i]

\* C2 witness: success although slide 0 was the last to complete.
C2_Witness ==
    /\ spc = "returned"
    /\ NumSlides >= 2
    /\ completion[Len(completion)] = 0
    /\ completion[1] = NumSlides - 1

\* C3: if some slide fails, no path list is returned and one failure is
\* raised whose index list is exactly the failed positions in ascending
\* order; and without a failed slide nothing is raised.
C3_AggregateFailure ==
    /\ spc = "raised" =>
        /\ ret = <<>>
        /\ failed # <<>>
        /\ \A k \in 1..(Len(failed) - 1) : failed[k] < failed[k + 1]
        /\ Range(failed) = {i \in SlideIdx : results[i] # "True"}
    /\ spc = "returned" => \A i \in SlideIdx : results[i] = "True"

\* C3 witness: two failed slides around a successful one.
C3_Witness ==
    /\ spc = "raised"
    /\ failed = <<0, 2>>
    /\ results[1] = "True"

\* C4: the aggregate failure is raised only after every one of the N slide
\* renders has started and finished, whichever slide fails first.
C4_FailureWaitsForAll ==
    spc = "raised" =>
        \A i \in SlideIdx :
            /\ tpc[i] = "done"
            /\ results[i] \in {"True", "False"}
            /\ \E k \in 1..Len(completion) : completion[k] = i
            /\ SourcesExist(slides[i]) => invoked[i] = 1 /\ outcome[i].kind # "none"

\* C4 witness: the first slide to complete failed, a later one succeeded.
C4_Witness ==
    /\ spc = "raised"
    /\ NumSlides >= 2
    /\ results[completion[1]] = "False"
    /\ results[completion[Len(completion)]] = "True"
    /\ outcome[completion[1]].kind = "exit"

\* C5: a finished slide render reports success iff image and audio exist,
\* the encoder exited with code 0 and the output file exists and is not
\* empty; with a missing source the encoder is never invoked for the slide.
C5_SlideSuccessIff ==
    \A i \in SlideIdx :
        /\ tpc[i] = "done" =>
            (results[i] = "True" <=>
                /\ slides[i].image_ok /\ slides[i].audio_ok
                /\ outcome[i].kind = "exit" /\ outcome[i].rc = 0
                /\ fs[output_paths[i]].state = "data")
        /\ ~(slides[i].image_ok /\ slides[i].audio_ok) =>
            invoked[i] = 0 /\ outcome[i].kind = "none"

\* C5 witness: one slide succeeded, one exited 0 with an empty file, and
\* one failed for a missing source without an encoder run.
C5_Witness ==
    /\ \E i \in SlideIdx : tpc[i] = "done" /\ results[i] = "True"
    /\ \E i \in SlideIdx :
        /\ tpc[i] = "done" /\ outcome[i].kind = "exit" /\ outcome[i].rc = 0
        /\ fs[output_paths[i]].state = "empty" /\ results[i] = "False"
    /\ \E i \in SlideIdx :
        /\ tpc[i] = "done" /\ ~slides[i].audio_ok /\ slides[i].image_ok
        /\ invoked[i] = 0 /\ results[i] = "False"

\* ===================================================================
\* Claims about render_video_parallel (SpecVideo)
\* ===================================================================
\* the boundaries of the slide list handed to render_video_parallel
VideoBoundaries == 0..(Cardinality(DOMAIN motions) - 2)

\* what C6 expects at boundary i from the two parsed requests
C6_Expected(i) ==
    LET out == transition_specs[i]
        inc == transition_specs[i + 1]
        req == IF out.present THEN out ELSE inc
        d == Min2(req.duration, Min2(audio_durations[i], audio_durations[i + 1]))
    IN IF req.present
       THEN [present |-> TRUE, type |-> req.type, duration |-> d]
       ELSE NoTransition

\* C6: at every boundary i the transition comes from the outgoing slide i's
\* valid request, from the incoming slide i+1's only if slide i has none; the
\* duration handed to the join is min(requested, duration[i], duration[i+1])
\* and the durations list is passed index-aligned with the clips.
C6_BoundaryResolution ==
    vpc \in {"joining", "returned"} =>
        /\ trans_arg.given /\ DOMAIN trans_arg.items = VideoBoundaries
        /\ \A i \in VideoBoundaries : trans_arg.items[i] = C6_Expected(i)
        /\ dur_arg.given /\ DOMAIN dur_arg.items = DOMAIN video_paths
        /\ \A i \in DOMAIN video_paths :
            /\ dur_arg.items[i] = audio_durations[i]
            /\ video_paths[i] = output_paths[i]

\* C6 witness: one boundary falls back to the incoming slide's request and
\* is clamped, another has two differing requests and takes the outgoing one.
C6_Witness ==
    /\ vpc = "joining"
    /\ \E i \in VideoBoundaries :
        /\ ~transition_specs[i].present /\ transition_specs[i + 1].present
        /\ trans_arg.items[i].present
        /\ trans_arg.items[i].duration < transition_specs[i + 1].duration
    /\ \E i \in VideoBoundaries :
        /\ transition_specs[i].present /\ transition_specs[i + 1].present
        /\ transition_specs[i].type # transition_specs[i + 1].type
        /\ trans_arg.items[i].type = transition_specs[i].type

\* ===================================================================
\* Claims about concat_videos_ffmpeg (SpecJoin)
\* ===================================================================
XfadeParts == {k \in 1..Len(filter_parts) : filter_parts[k].op = "xfade"}

\* C7: every blend emitted at boundary i has a duration d with
\* 0 < d <= durations[i] and d <= durations[i+1], also after hard joins.
\* (The xfade joining clip idx stands at boundary idx - 1.)
C7_BlendWithinAdjacent ==
    \A k \in XfadeParts :
        LET idx == filter_parts[k].out.idx
            d == filter_parts[k].duration
        IN /\ 0 < d
           /\ d <= dur_arg.items[idx - 1]
           /\ d <= dur_arg.items[idx]

RECURSIVE SumDurations(_)
\* durations[0] + ... + durations[k]
SumDurations(k) == IF k < 0 THEN 0 ELSE dur_arg.items[k] + SumDurations(k - 1)

RECURSIVE SumBlends(_, _)
\* the durations of the blends emitted for clips 1..k, from part j on
SumBlends(j, k) ==
    IF j > Len(filter_parts) THEN 0
    ELSE (IF filter_parts[j].op = "xfade" /\ filter_parts[j].out.idx <= k
          THEN filter_parts[j].duration ELSE 0) + SumBlends(j + 1, k)

\* presentation length of clips 0..k joined as the filter graph says
PrefixLength(k) == SumDurations(k) - SumBlends(1, k)

\* C8: current_duration starts at durations[0]; a blend of effective
\* duration d is placed at offset current_duration - d, never negative, and
\* adds durations[i+1] - d; a hard join adds durations[i+1]; so in the end
\* current_duration is the sum of the durations minus the sum of the blends.
C8_OffsetBookkeeping ==
    (jpc \in {"loop", "running", "done"} /\ HasTransition /\ ~DurationsUnusable) =>
        /\ current_duration = PrefixLength(jidx - 1)
        /\ jidx = 1 => current_duration = dur_arg.items[0]
        /\ \A k \in XfadeParts :
            LET p == filter_parts[k] IN
            /\ p.offset = PrefixLength(p.out.idx - 1) - p.duration
            /\ p.offset >= 0
            /\ filter_parts[k + 1].op = "acrossfade"
            /\ filter_parts[k + 1].duration = p.duration
        /\ jpc \in {"running", "done"} =>
            current_duration = SumDurations(NumClips - 1) - SumBlends(1, NumClips)

\* C8 witness: three clips, a hard join followed by a blend placed after the
\* start, the join process launched.
C8_Witness ==
    /\ jpc = "running"
    /\ NumClips = 3
    /\ Len(filter_parts) = 4
    /\ filter_parts[1].op = "concat"
    /\ \E k \in XfadeParts : filter_parts[k].offset > 0 /\ filter_parts[k].duration > 1

\* every boundary carries a transition whose explicit duration is zero
AllZeroTransitions ==
    /\ NumClips >= 2
    /\ NumTransitions = NumClips - 1
    /\ \A k \in DOMAIN Transitions :
        Transitions[k].present /\ Transitions[k].duration = 0

\* every boundary's transition is absent
AllAbsentTransitions == \A k \in DOMAIN Transitions : ~Transitions[k].present

\* the behaviour of the plain path: one stream-copy invocation of the clips
\* in input order, no filter graph, no encoder parameters
PlainConcat ==
    /\ join_calls = 1
    /\ cmd.mode = "concat"
    /\ cmd.vcodec = "copy" /\ cmd.acodec = "copy"
    /\ Len(cmd.inputs) = NumClips
    /\ \A k \in 1..NumClips : cmd.inputs[k].file = video_paths[k - 1]
    /\ cmd.filter = <<>> /\ cmd.maps = <<>> /\ filter_parts = <<>>
    /\ cmd.preset = "" /\ cmd.crf = "" /\ cmd.audio_bitrate = ""

\* C9: all transitions present with duration zero behaves exactly as all
\* transitions absent: the plain stream-copy concatenation, with or without
\* a durations list.
C9_ZeroSameAsAbsent ==
    (jpc = "done" /\ AllZeroTransitions) => PlainConcat

\* C10: when no boundary has a transition there is exactly one external
\* invocation, a stream copy of the clips in input order, without filter
\* graph or re-encode parameters, and the durations list is not required.
C10_PlainConcatWhenNoTransition ==
    (jpc \in {"running", "done"} /\ AllAbsentTransitions) =>
        /\ PlainConcat
        /\ jpc = "done" => (join_result = "True" => join_out = "data")

\* C10 witness: a list of absent transitions, no durations list, several
\* clips, the copy succeeded.
C10_Witness ==
    /\ jpc = "done"
    /\ NumClips >= 2
    /\ trans_arg.given /\ NumTransitions = NumClips - 1
    /\ AllAbsentTransitions
    /\ ~dur_arg.given
    /\ join_result = "True"

\* C11: when at least one transition is requested and the durations are
\* missing or not one per clip, concat_videos_ffmpeg reports failure and makes
\* no external join invocation: no command line is built, no concat list is
\* written, and the call never falls back to the plain concatenation.
C11_Requested ==
    /\ trans_arg.given
    /\ \E k \in DOMAIN trans_arg.items : trans_arg.items[k].present

C11_DurationsMissingOrMismatched ==
    \/ ~dur_arg.given
    \/ Cardinality(DOMAIN dur_arg.items) # Cardinality(DOMAIN video_paths)

C11_FailsWithoutJoin ==
    (jpc # "idle" /\ C11_Requested /\ C11_DurationsMissingOrMismatched)
        => /\ join_calls = 0
           /\ cmd = NoCmd
           /\ concat_list = <<>>
           /\ filter_parts = <<>>
           /\ jpc \in {"start", "done"}
           /\ (jpc = "done" => join_result = "False")

C11_Witness ==
    /\ jpc = "done"
    /\ C11_Requested
    /\ dur_arg.given
    /\ Cardinality(DOMAIN dur_arg.items) # Cardinality(DOMAIN video_paths)
    /\ join_result = "False"
    /\ join_calls = 0

\* three clips of durations [2,3,2], a transition of requested duration 10
\* at boundary 0 and none at boundary 1
C19_Input ==
    /\ jpc \in {"loop", "running", "done"}
    /\ NumClips = 3
    /\ dur_arg.given
    /\ dur_arg.items = [i \in 0..2 |-> IF i = 1 THEN 3 ELSE 2]
    /\ trans_arg.given
    /\ 0 \in DOMAIN trans_arg.items
    /\ trans_arg.items[0].present
    /\ trans_arg.items[0].duration = 10
    /\ (1 \in DOMAIN trans_arg.items => ~trans_arg.items[1].present)

\* the blend of boundary 0 as the filter graph holds it
C19_FirstBlend ==
    /\ Len(filter_parts) >= 2
    /\ filter_parts[1].op = "xfade"
    /\ filter_parts[1].duration = 2
    /\ filter_parts[1].offset = 0

\* C19 as stated: the blend is clamped to 2 and placed at offset 0, and
\* current_duration is 5 after boundary 0 and 7 after boundary 1.
C19_TimelineAsStated ==
    (C19_Input /\ jidx >= 2) =>
        /\ C19_FirstBlend
        /\ (jidx = 2 => current_duration = 5)
        /\ (jidx = 3 => current_duration = 7)

\* C19 amended: the blend is clamped to 2 and placed at offset 0, and
\* current_duration is 2 + 3 - 2 = 3 after boundary 0 and 3 + 2 = 5 after
\* boundary 1.
C19_TimelineOfExample ==
    (C19_Input /\ jidx >= 2) =>
        /\ C19_FirstBlend
        /\ (jidx = 2 => current_duration = 3)
        /\ (jidx = 3 => current_duration = 5)

C19_Witness ==
    /\ C19_Input
    /\ jpc = "running"
    /\ jidx = 3
    /\ Len(filter_parts) = 4
    /\ filter_parts[3].op = "concat"
    /\ current_duration = 5

\* ===================================================================
\* Claims about render_reel (SpecReel)
\* ===================================================================
\* the join of the parallel renderer ended without a usable output
C12_JoinFailed == jpc = "done" /\ join_result = "False"

\* C12: a failed join (non-zero exit, a raised subprocess, a missing or empty
\* output file) is fatal to the render: the parallel renderer returns false,
\* render_reel raises RenderError, no subtitle burn, ending video or music mix
\* runs, and nothing is written at the caller's output path.
C12_JoinFailureIsFatal ==
    C12_JoinFailed =>
        /\ vpc \in {"joining", "returned"}
        /\ (vpc = "returned" => video_result = "False")
        /\ rpc \in {"parallel", "raised"}
        /\ (rpc = "raised" => reel_error = "RenderError")
        /\ stages = <<>>
        /\ reel_output = "absent"

C12_Witness ==
    /\ C12_JoinFailed
    /\ join_calls = 1
    /\ join_out = "empty"
    /\ rpc = "raised"
    /\ reel_error = "RenderError"
    /\ reel_spec.subtitle
    /\ reel_spec.ending_video
    /\ reel_spec.background_music # "none"
    /\ reel_output = "absent"

\* ===================================================================
\* Claims about generate_ass_karaoke (SpecSub)
\* ===================================================================
\* the \k values of a dialogue line, in the order written
RevealValues(line) ==
    LET parts == Flatten(line.kara) IN [j \in 1..Len(parts) |-> parts[j].k]

\* the weights of its words: word characters, at least 1
WordWeights(line) ==
    LET parts == Flatten(line.kara)
    IN [j \in 1..Len(parts) |-> Max2(1, parts[j].token.wlen)]

\* total centiseconds of a line: max(1, round((absoluteEnd - absoluteStart) * 100))
TotalCentiseconds(line) == Max2(1, line.end - line.start)

\* the allocation of a word before the remainder is added
RoundedShare(line, j) ==
    Max2(1, RoundHalfEven(TotalCentiseconds(line) * WordWeights(line)[j],
                          SeqSum(WordWeights(line))))

\* C13: for every emitted chunk the per-word reveal allocations sum exactly to
\* the chunk's total centiseconds max(1, round((absoluteEnd - absoluteStart) *
\* 100)); every word but the last has its rounded share, and the last word
\* carries what remains.
C13_AllocationsSumToTotal ==
    \A i \in 1..Len(dialogue) :
        LET line == dialogue[i]
            ks == RevealValues(line)
            n == Len(ks)
        IN /\ n >= 1
           /\ SeqSum(ks) = TotalCentiseconds(line)
           /\ \A j \in 1..(n - 1) : ks[j] = RoundedShare(line, j)
           /\ ks[n] = TotalCentiseconds(line) - SeqSum(SubSeq(ks, 1, n - 1))

C13_Witness ==
    /\ sub_pc = "written"
    /\ \E i \in 1..Len(dialogue) :
        LET line == dialogue[i]
            ks == RevealValues(line)
        IN /\ Len(ks) = 3
           /\ ks[3] # RoundedShare(line, 3)
           /\ SeqSum(ks) = TotalCentiseconds(line)
           /\ TotalCentiseconds(line) > 3

\* the entries of a slide group in chunkIndex order
SortedGroup(slide) == SortByChunk(GroupOf(grouped, slide))

\* the chunk a dialogue line was written for
ChunkOf(line) == SortedGroup(line.slide)[line.pos]

\* largest intra-slide end of a group, counted from 0 as slide_length is
MaxEnd(es) ==
    LET ends == {es[i].end : i \in 1..Len(es)} \cup {0}
    IN CHOOSE m \in ends : \A x \in ends : x <= m

SumOfDurations(es) == SeqSum([i \in 1..Len(es) |-> es[i].duration])

\* what a group adds to the running offset: its largest chunk end, or the
\* sum of its durations when no chunk end is positive
LengthOfGroup(es) == IF MaxEnd(es) > 0 THEN MaxEnd(es) ELSE SumOfDurations(es)

\* the running offset when the group of a slide is entered
RunningOffset(slide) ==
    LET earlier == SelectSeq(SortedKeys(grouped), LAMBDA k : k < slide)
    IN SeqSum([i \in 1..Len(earlier) |-> LengthOfGroup(SortedGroup(earlier[i]))])

\* C14: every dialogue line, in the first slide group and in the later ones,
\* starts at the running offset of its slide plus the chunk's intra-slide
\* start and ends at that offset plus the chunk's intra-slide end.
C14_AbsoluteStartAndEnd ==
    \A i \in 1..Len(dialogue) :
        LET line == dialogue[i]
            chunk == ChunkOf(line)
            offset == RunningOffset(line.slide)
        IN /\ line.start = offset + chunk.start
           /\ line.end = offset + chunk.end

\* C15: the absolute start times of the dialogue lines never decrease in
\* emission order, within a slide group and from one group to the next.
C15_StartsNonDecreasing ==
    \A i \in 1..Len(dialogue), j \in 1..Len(dialogue) :
        i < j => dialogue[i].start <= dialogue[j].start

\* the chunks of the groups the second loop has been through
ProcessedSlides == {SortedKeys(grouped)[k] : k \in 1..sub_done}

ChunkEmits(chunk) == chunk.subtitle /\ TextChars(chunk.text) > 0

\* how many chunks of a group write a line
EmittingIn(es) == Cardinality({p \in 1..Len(es) : ChunkEmits(es[p])})

EmittingChunks ==
    LET done == SubSeq(SortedKeys(grouped), 1, sub_done)
    IN SeqSum([k \in 1..Len(done) |-> EmittingIn(SortedGroup(done[k]))])

\* the group with every chunk enabled
AllEnabled(es) == [i \in 1..Len(es) |-> [es[i] EXCEPT !.subtitle = TRUE]]

RECURSIVE LengthThrough(_, _)
\* slide_length after the first n entries of a group
LengthThrough(es, n) ==
    IF n = 0 THEN 0 ELSE LengthAfter(LengthThrough(es, n - 1), es[n])

\* the length the loop over a group arrives at
LoopedLength(es) == SlideLength(LengthThrough(es, Len(es)), es)

\* the running offset had every chunk of the processed groups been enabled
OffsetIfAllEnabled ==
    LET done == SubSeq(SortedKeys(grouped), 1, sub_done)
    IN SeqSum([k \in 1..Len(done) |->
                  Max2(0, LoopedLength(AllEnabled(SortedGroup(done[k]))))])

\* C16: a chunk that is disabled or has empty text produces no dialogue line,
\* its intra-slide end still counts toward the length of its slide group, so
\* the running offset is what it would be with the chunk enabled, and there
\* is exactly one dialogue line per enabled, non-empty chunk.
C16_SilentChunksKeepTheirTime ==
    /\ \A i \in 1..Len(dialogue) : ChunkEmits(ChunkOf(dialogue[i]))
    /\ \A i \in 1..Len(dialogue), j \in 1..Len(dialogue) :
        (dialogue[i].slide = dialogue[j].slide /\ dialogue[i].pos = dialogue[j].pos)
            => i = j
    /\ Len(dialogue) = EmittingChunks
    /\ timeline_offset = OffsetIfAllEnabled
    /\ \A s \in ProcessedSlides :
        LET es == SortedGroup(s)
            length == LoopedLength(es)
        IN \A p \in 1..Len(es) : length >= es[p].end

C16_Witness ==
    /\ sub_pc = "written"
    /\ SortedKeys(grouped) = <<0, 1>>
    /\ Len(SortedGroup(0)) = 1
    /\ ~SortedGroup(0)[1].subtitle
    /\ SortedGroup(0)[1].end = 3
    /\ Len(dialogue) = 1
    /\ dialogue[1].slide = 1
    /\ dialogue[1].start = 3

\* what the claim takes a group to add: the sum of the durations when no
\* chunk of the group is enabled, its largest chunk end otherwise
C17_AdvanceByEnabled(es) ==
    IF \A i \in 1..Len(es) : ~es[i].subtitle THEN SumOfDurations(es)
    ELSE MaxEnd(es)

\* C17 as stated: the offset advances by the largest chunk end of the group,
\* or by the sum of the durations when the group had no enabled chunk, and
\* never decreases.
C17_AdvanceAsStated ==
    LET done == SubSeq(SortedKeys(grouped), 1, sub_done)
    IN /\ timeline_offset =
            SeqSum([k \in 1..Len(done) |-> C17_AdvanceByEnabled(SortedGroup(done[k]))])
       /\ \A k \in 1..Len(done) : C17_AdvanceByEnabled(SortedGroup(done[k])) >= 0

\* C17 amended: the offset advances by the largest chunk end of the group,
\* or, when no chunk end of the group is positive, by the sum of the
\* durations of its chunks, whether or not its chunks are enabled; it never
\* decreases.
C17_AdvanceByLength ==
    LET done == SubSeq(SortedKeys(grouped), 1, sub_done)
    IN /\ timeline_offset =
            SeqSum([k \in 1..Len(done) |-> LengthOfGroup(SortedGroup(done[k]))])
       /\ \A k \in 1..Len(done) : LengthOfGroup(SortedGroup(done[k])) >= 0

C17_Witness ==
    /\ sub_pc = "written"
    /\ sub_done = 2
    /\ MaxEnd(SortedGroup(0)) = 0
    /\ SumOfDurations(SortedGroup(0)) = 50
    /\ \A p \in 1..Len(SortedGroup(1)) : ~SortedGroup(1)[p].subtitle
    /\ MaxEnd(SortedGroup(1)) = 1
    /\ SumOfDurations(SortedGroup(1)) = 3
    /\ timeline_offset = 51

\* the duration a segment resolves to before any replacement: the duration
\* field, else end - start, else the audio duration, else the estimate
C18_Resolved(seg) ==
    LET start == IF seg.start.kind = "number" THEN seg.start.value ELSE 0
    IN IF seg.duration.kind = "number" THEN seg.duration.value
       ELSE IF seg.end.kind = "number" THEN seg.end.value - start
       ELSE IF seg.audio.given THEN seg.audio.duration
       ELSE Max2(100, 6 * TextChars(seg.text))

\* the entry the first loop stored for segment k, read before any group is sorted
C18_EntryOf(k) ==
    LET slide == IntOr(segments[k].slide_index, k - 1)
        rank == Cardinality({j \in 1..k :
                    segments[j].is_dict /\ IntOr(segments[j].slide_index, j - 1) = slide})
    IN GroupOf(grouped, slide)[rank]

\* C18: a chunk whose resolved duration is not positive gets the duration
\* max(1.0, 0.06 x characterCount) seconds, and that value is what it adds to
\* the timeline: a chunk with no end of its own ends that long after its start.
C18_ReplacedByEstimate ==
    (sub_pc = "groups" /\ sub_done = 0) =>
        \A k \in 1..Len(segments) :
            (segments[k].is_dict /\ C18_Resolved(segments[k]) <= 0) =>
                LET entry == C18_EntryOf(k)
                    estimate == Max2(100, 6 * TextChars(segments[k].text))
                IN /\ entry.duration = estimate
                   /\ (segments[k].end.kind # "number"
                          => entry.end = entry.start + estimate)

\* ===================================================================
\* Claims about _get_quality_resolution (SpecRes)
\* ===================================================================
\* C20: for quality final the dimensions come back unchanged; for quality
\* draft, whatever the positive width and height, both returned dimensions
\* are even and the shorter of them is 540.
C20_ResolutionPolicy ==
    res_pc = "returned" =>
        IF res_quality = "final"
        THEN res_out = [width |-> res_width, height |-> res_height]
        ELSE /\ res_out.width % 2 = 0
             /\ res_out.height % 2 = 0
             /\ Min2(res_out.width, res_out.height) = 540

C20_Witness ==
    /\ res_pc = "returned"
    /\ res_quality = "draft"
    /\ res_width = 7
    /\ res_height = 4
    /\ res_out = [width |-> 946, height |-> 540]

\* ---------------------------------------------------------------- C21
\* the invalid transition requests: unknown type, type that is not text,
\* missing or non-numeric duration, non-positive duration
C21_InvalidRequest(motion) ==
    /\ motion.is_dict
    /\ motion.has_transition
    /\ \/ ~motion.type_is_text
       \/ StripLower(motion.type) \notin ValidTypes
       \/ motion.duration.kind # "number"
       \/ motion.duration.value <= 0

C21_ParseRaised == vpc = "raised" /\ spc = "idle"

\* C21: once the motions have been parsed, every invalid transition request
\* has become "no transition", and the parse has raised no error.
C21_InvalidRequestIsAbsent ==
    /\ ~C21_ParseRaised
    /\ vpc = "prepared" =>
          \A i \in DOMAIN motions :
              C21_InvalidRequest(motions[i]) => transition_specs[i] = NoTransition

\* ---------------------------------------------------------------- C22
\* C22: a job with a transform on some slide never enters the parallel
\* renderer, and when render_reel has returned its output file exists.
C22_TransformUsesSinglePath ==
    reel_spec.transform =>
        /\ vpc = "idle"
        /\ rpc # "parallel"
        /\ rpc = "returned" => reel_output # "absent"

\* ===================================================================
\* Claims about the /render/reel endpoint (SpecAuth)
\* ===================================================================
C23_Configured == auth_token.given /\ auth_token.text # <<>>

C23_BearerScheme ==
    /\ auth_header.given
    /\ Len(auth_header.text) >= 2
    /\ auth_header.text[1] = "Bearer"
    /\ auth_header.text[2] = " "

\* the words that follow "Bearer ", without the blanks around them
C23_Presented ==
    LET t == SubSeq(auth_header.text, 3, Len(auth_header.text))
        I == {i \in 1..Len(t) : t[i] # " "}
    IN IF I = {} THEN <<>>
       ELSE SubSeq(t, CHOOSE i \in I : \A j \in I : i <= j,
                      CHOOSE i \in I : \A j \in I : i >= j)

C23_ValidToken == C23_BearerScheme /\ C23_Presented = auth_token.text

\* C23: with a token configured, a request without a valid bearer token never
\* starts a render: no Bearer header answers 401 "Missing bearer token", a
\* wrong token answers 403; a matching token, and any request when no token
\* is configured, passes the check and reaches render_reel, whose bytes are
\* returned with the job id header.
C23_AuthGate ==
    /\ (C23_Configured /\ ~C23_ValidToken) =>
          render_calls = 0 /\ response.status # 200
    /\ (apc = "done" /\ C23_Configured /\ ~C23_BearerScheme) =>
          response.status = 401 /\ response.detail = "Missing bearer token"
    /\ (apc = "done" /\ C23_Configured /\ C23_BearerScheme /\ ~C23_ValidToken) =>
          response.status = 403
    /\ (apc = "done" /\ (~C23_Configured \/ C23_ValidToken)) =>
          /\ response.status \notin {401, 403}
          /\ payload_ok => render_calls = 1 /\ response.status \in {200, 500}
    /\ response.status = 200 =>
          /\ render_calls = 1
          /\ response.body = "rendered"
          /\ response.job_id_header = "job_id"

\* a configured token presented with a trailing blank is accepted and served
C23_Witness ==
    /\ auth_token = Text(<<"secret">>)
    /\ auth_header = Text(<<"Bearer", " ", "secret", " ">>)
    /\ apc = "done"
    /\ response.status = 200

\* ---------------------------------------------------------------- C24
\* C24: every word of every emitted dialogue line is revealed for at least
\* one centisecond.
C24_EveryWordAtLeastOneCs ==
    \A d \in 1..Len(dialogue) :
        \A li \in 1..Len(dialogue[d].kara) :
            \A ti \in 1..Len(dialogue[d].kara[li]) :
                dialogue[d].kara[li][ti].k >= 1

\* ---------------------------------------------------------------- C25
\* the segments of slide `slide` a stored entry may have come from
C25_SourcesOf(slide, entry) ==
    {k \in 1..Len(segments) :
        /\ segments[k].is_dict
        /\ IntOr(segments[k].slide_index, k - 1) = slide
        /\ NormalizeSegment(segments[k], k - 1) = entry}

\* C25: the span of every emitted dialogue line is the resolved duration of
\* its chunk: the duration field if present, else end - start, else the
\* audio duration, else the estimate; an explicit duration wins over an end
\* offset that disagrees with it.
C25_SpanIsResolvedDuration ==
    \A d \in 1..Len(dialogue) :
        \E k \in C25_SourcesOf(dialogue[d].slide, ChunkOf(dialogue[d])) :
            dialogue[d].end - dialogue[d].start = C18_Resolved(segments[k])

\* ===================================================================
\* Further claims about render_reel (SpecReel)
\* ===================================================================
C26_SomeTransition ==
    \E i \in DOMAIN reel_motions :
        reel_motions[i].is_dict /\ reel_motions[i].has_transition

C26_ParallelWanted == reel_spec.use_parallel /\ ~C26_SomeTransition

\* the step in which render_reel chooses its assembler
C26_Choice ==
    IF rpc = "start" /\ rpc' # "start" /\ reel_spec.assets_ok
    THEN /\ rpc' \in {"parallel", "single"}
         /\ rpc' = "parallel" <=> C26_ParallelWanted
         /\ rpc' = "parallel" <=> vpc' = "start"
    ELSE /\ rpc' \in {"parallel", "single"} => rpc' = rpc
         /\ vpc = "idle" => vpc' = "idle"

\* what holds of the assembler that was entered
C26_Entered ==
    /\ rpc = "single" => vpc = "idle"
    /\ vpc # "idle" => C26_ParallelWanted
    /\ vpc \in {"prepared", "rendered", "joining", "returned"} =>
          \A i \in DOMAIN transition_specs : transition_specs[i] = NoTransition
    /\ jpc # "idle" =>
          /\ \A i \in DOMAIN trans_arg.items : trans_arg.items[i] = NoTransition
          /\ filter_parts = <<>>

C27_WorkDirsRemoved ==
    /\ vpc \in {"returned", "raised"} => work_dir = "removed"
    /\ vpc \in {"prepared", "rendered", "joining"} => work_dir = "exists"
    /\ rpc \in {"returned", "raised"} =>
          /\ reel_work_dir = "removed"
          /\ work_dir \in {"none", "removed"}
    /\ rpc = "copied" => reel_work_dir = "exists" /\ reel_output = current_video
    /\ rpc = "returned" => reel_output = current_video /\ reel_output # "absent"

\* a stage after the assembly raised, after the parallel renderer had
\* finished: both work directories are gone
C27_Witness ==
    /\ rpc = "raised"
    /\ vpc = "returned"
    /\ stages # <<>>
    /\ reel_work_dir = "removed"
    /\ work_dir = "removed"

\* ===================================================================
\* Further claims about render_video_parallel (SpecVideo)
\* ===================================================================
\* a motion that carries a valid transition request
C28_ValidRequest(m) ==
    /\ m.is_dict /\ m.has_transition /\ m.type_is_text
    /\ StripLower(m.type) \in ValidTypes
    /\ m.duration.kind = "number" /\ m.duration.value > 0

\* slide k is interior, carries the only request, no other slide has a motion
C28_OnlyInterior(k) ==
    /\ k \in DOMAIN motions
    /\ k - 1 \in DOMAIN motions /\ k + 1 \in DOMAIN motions
    /\ C28_ValidRequest(motions[k])
    /\ \A i \in DOMAIN motions \ {k} : motions[i] = NoMotion

\* the blend the request of slide k makes at boundary i
C28_Blend(k, i) ==
    [present |-> TRUE, type |-> StripLower(motions[k].type),
     duration |-> Min2(motions[k].duration.value,
                       Min2(audio_durations[i], audio_durations[i + 1]))]

\* C28: a single valid request on an interior slide k blends boundary k-1
\* (taken over from the incoming slide) and boundary k (its own), each with
\* the request clamped to the two durations next to that boundary, and no
\* other boundary.
C28_InteriorRequestBlendsTwice ==
    \A k \in DOMAIN motions :
        (C28_OnlyInterior(k) /\ vpc \in {"joining", "returned"}) =>
            /\ \A i \in VideoBoundaries :
                  trans_arg.items[i] =
                      IF i \in {k - 1, k} THEN C28_Blend(k, i) ELSE NoTransition
            /\ vpc = "returned" =>
                  {<<filter_parts[p].out.idx, filter_parts[p].duration>> :
                        p \in XfadeParts}
                    = {<<k, C28_Blend(k, k - 1).duration>>,
                       <<k + 1, C28_Blend(k, k).duration>>}

\* the long request of the middle slide of three is cut to 1 before it and
\* to 2 after it
C28_Witness ==
    /\ vpc = "returned"
    /\ C28_OnlyInterior(1)
    /\ motions[1].duration.value = LongRequest
    /\ audio_durations[0] = 1 /\ audio_durations[1] = 2 /\ audio_durations[2] = 2
    /\ trans_arg.items[0].duration = 1
    /\ trans_arg.items[1].duration = 2

\* ===================================================================
\* Claims about the two assembly paths (SpecCompose)
\* ===================================================================
C29_Specs ==
    [i \in DOMAIN compose_motions |-> ParseTransitionSpec(compose_motions[i])]

RECURSIVE C29_Joined(_, _, _, _, _)
\* the blends and the length the join makes of boundary transitions bts
C29_Joined(bts, durs, idx, cur, blends) ==
    IF idx \notin DOMAIN durs THEN [overlaps |-> blends, duration |-> cur]
    ELSE IF Blends(bts[idx - 1])
    THEN LET d == EffectiveDuration(bts[idx - 1].duration, cur, durs[idx])
         IN C29_Joined(bts, durs, idx + 1, cur + durs[idx] - d, Append(blends, d))
    ELSE C29_Joined(bts, durs, idx + 1, cur + durs[idx], Append(blends, 0))

\* what the parallel path makes of the same clips and motions
C29_Parallel ==
    C29_Joined(BoundaryTransitions(C29_Specs, clips), clips, 1, clips[0], <<>>)

\* C29: for the same durations and the same requests the single-process
\* path blends the boundaries the parallel path blends, with the same
\* effective durations and the same total duration, also when only the last
\* slide carries a request.
C29_PathsAgree ==
    compose_pc = "returned" => compose_out = C29_Parallel

\* ===================================================================
\* Liveness of render_slides_parallel (SpecSchedLive)
\* ===================================================================
\* C30: for every worker limit and every slide list, with encoders that all
\* exit, render_slides_parallel eventually returns or raises, and by then
\* every slide has obtained a slot and was started, at most once.
C30_EveryCallEnds ==
    <>(/\ spc \in {"returned", "raised"}
       /\ \A i \in SlideIdx : tpc[i] = "done" /\ invoked[i] <= 1)

====
